---------------------------- MODULE Spec2Model ----------------------------
(***************************************************************************)
(* Concept-alignment engine of scripts/step4_generate_conceptmaps.py:      *)
(* text normalisation, relationship classification, candidate matching,    *)
(* the per-system mapping run (map_system) and persistence (persist_db).   *)
(*                                                                         *)
(* Texts are sequences of words.  Scores are integers in thousandths of a  *)
(* point (72000 is the score 72.0), so that the rounding to two decimals   *)
(* that map_system applies to a confidence is visible.                     *)
(***************************************************************************)
EXTENDS Integers, Sequences, FiniteSets, TLC

(***************************************************************************)
(* Generic helpers for Python list and set operations.                     *)
(***************************************************************************)
Range(s) == {s[i] : i \in 1..Len(s)}

Max2(a, b) == IF a >= b THEN a ELSE b

(***************************************************************************)
(* _normalize_text.  A raw word is folded to its canonical Latin lowercase *)
(* form; a word made of punctuation only normalises to nothing.            *)
(***************************************************************************)
NormWord(w) ==
    CASE w = "Vata"   -> "vata"
      [] w = "Dosha"  -> "dosha"
      [] w = "tumour" -> "tumor"
      [] w = ";"      -> ""
      [] OTHER        -> w

RECURSIVE _normalize_text(_)
_normalize_text(s) ==
    IF s = <<>> THEN <<>>
    ELSE LET w == NormWord(Head(s))
         IN  IF w = "" THEN _normalize_text(Tail(s))
             ELSE <<w>> \o _normalize_text(Tail(s))

STOPWORDS == {"the", "and", "with", "without", "of", "in", "on", "to", "for",
              "from", "by", "at", "or", "disease", "disorder", "syndrome",
              "acute", "chronic", "unspecified", "other", "site", "due", "type"}

\* Words of the vocabulary shorter than three characters.
ShortWords == {"of", "in", "on", "to", "by", "at", "or"}

_tokens(s) ==
    LET n == _normalize_text(s)
        RECURSIVE Keep(_)
        Keep(t) ==
            IF t = <<>> THEN <<>>
            ELSE IF Head(t) \notin ShortWords /\ Head(t) \notin STOPWORDS
                 THEN <<Head(t)>> \o Keep(Tail(t))
                 ELSE Keep(Tail(t))
    IN  Keep(n)

(***************************************************************************)
(* Token heuristics.  Ratios are compared as cross-multiplied integers:    *)
(* a ratio is the pair <<numerator, denominator>>.                         *)
(***************************************************************************)
\* r >= num/den for a ratio r = <<n, d>> with d > 0
RatioGeq(r, num, den) == r[1] * den >= num * r[2]

RatioLt(r, num, den) == ~RatioGeq(r, num, den)

_token_overlap(a, b) ==
    IF a = <<>> \/ b = <<>> THEN <<0, 1>>
    ELSE LET sa == Range(a)
             sb == Range(b)
         IN  <<Cardinality(sa \cap sb), Max2(Cardinality(sa), Cardinality(sb))>>

_jaccard(a, b) ==
    IF a = <<>> \/ b = <<>> THEN <<0, 1>>
    ELSE LET sa == Range(a)
             sb == Range(b)
         IN  <<Cardinality(sa \cap sb), Cardinality(sa \cup sb)>>

_is_subset(a, b) == Range(a) \subseteq Range(b) /\ Len(a) < Len(b)

RELATED_THRESHOLD == 70000

NoRel == "none"

\* A plausible slip: every score below the equivalence cutoff classified related-to.
decide_relationship_uncut(nam_text, icd_primary, best_score) ==
    IF best_score >= 96000 \/ _normalize_text(nam_text) = _normalize_text(icd_primary)
    THEN "equivalent" ELSE "related-to"

decide_relationship(nam_text, icd_primary, best_score) ==
    LET nam_norm   == _normalize_text(nam_text)
        icd_norm   == _normalize_text(icd_primary)
        nam_tokens == _tokens(nam_text)
        icd_tokens == _tokens(icd_primary)
        jac        == _jaccard(nam_tokens, icd_tokens)
    IN  IF best_score >= 96000 \/ nam_norm = icd_norm \/ RatioGeq(jac, 9, 10)
        THEN "equivalent"
        ELSE IF /\ best_score >= 90000
                /\ _is_subset(icd_tokens, nam_tokens)
                /\ RatioGeq(_token_overlap(nam_tokens, icd_tokens), 8, 10)
        THEN "source-is-narrower-than-target"
        ELSE IF /\ best_score >= 88000
                /\ _is_subset(nam_tokens, icd_tokens)
                /\ RatioGeq(_token_overlap(nam_tokens, icd_tokens), 7, 10)
        THEN "source-is-broader-than-target"
        ELSE IF best_score >= RELATED_THRESHOLD
        THEN "related-to"
        ELSE NoRel


(***************************************************************************)
(* State.                                                                  *)
(***************************************************************************)
VARIABLES
    pc,                \* "idle": no run in progress; "mapped": map_system has returned to main
    cfg,               \* module globals of the running process (set by main from argv)
    Concept,           \* Concept table: code system url -> list of ConceptEntry
    TranslationCache,  \* TranslationCache table: set of rows, key (codesystem url, code)
    ConceptMap,        \* ConceptMap table: list of rows in insertion order
    synonyms,          \* db/domain_synonyms/<system>_synonyms.json: list of <<key, value>>
    fzSeed,            \* which behaviour of the rapidfuzz library this run of the world has
    trSeed,            \* which behaviour of the IndicTrans2 translator it has
    argv,              \* the command line of the current (or last) process
    runs,              \* how many processes have been started
    prev,              \* the process before: its command line, the ConceptMap row count it
                       \* left, and what its last map_system call returned
    pending,           \* main's loop: the source systems still to be mapped
    run,               \* what the last map_system call produced and did
    classify,          \* input and result of a direct decide_relationship or
                       \* _composite_score call
    icd_cache,         \* db/icd11 and db/embeddings/icd_alias_index.json around a direct
                       \* build_icd_alias_index call, and what the call returned
    out_files,         \* the files under db/conceptmaps the current (or last) process wrote
    tree,              \* step3_store_db.insert_icd11_tree: the cached documents, the work
                       \* queue, the visited set, and what was loaded and inserted so far
    sem                \* api/semantic.py: the module singletons, the lock, and each caller's position

vars == <<pc, cfg, Concept, TranslationCache, ConceptMap, synonyms, fzSeed, trSeed,
          argv, runs, prev, pending, run, classify, icd_cache, out_files, tree, sem>>

(***************************************************************************)
(* External services.  rapidfuzz and the translation model are not part of *)
(* the repository: each is a deterministic function of its arguments,      *)
(* drawn (by fzSeed, trSeed) from a family of possible behaviours.         *)
(***************************************************************************)
NumFuzzSeeds == 5

NumTranslatorSeeds == 6

WordRank(w) ==
    CASE w = "vata"     -> 1
      [] w = "dosha"    -> 2
      [] w = "pitta"    -> 3
      [] w = "kapha"    -> 5
      [] w = "jvara"    -> 7
      [] w = "disorder" -> 11
      [] w = "vikara"   -> 13
      [] w = "Vata"     -> 17
      [] w = "Dosha"    -> 19
      [] w = ";"        -> 23
      [] OTHER          -> 29

RECURSIVE TextHash(_)
TextHash(t) == IF t = <<>> THEN 0 ELSE WordRank(Head(t)) + 3 * TextHash(Tail(t))

\* <<WRatio, token_set_ratio, Jaro-Winkler similarity>> of two different non-empty strings
FuzzLevels ==
    << <<40000, 40000, 40000>>, <<60000, 60000, 60000>>, <<68000, 68000, 68000>>,
       <<72345, 72345, 72345>>, <<95000, 60010, 50000>>, <<80000, 80000, 80000>>,
       <<86000, 86000, 86000>>, <<89000, 89000, 89000>>, <<92000, 92000, 92000>>,
       <<97000, 97000, 97000>> >>

fuzz(a, b) ==
    IF a = <<>> \/ b = <<>>
    THEN (IF a = b THEN <<0, 0, 100000>> ELSE <<0, 0, 0>>)
    ELSE IF a = b THEN <<100000, 100000, 100000>>
    ELSE FuzzLevels[((TextHash(a) + TextHash(b) + 2 * fzSeed) % Len(FuzzLevels)) + 1]

fuzz_WRatio(a, b) == fuzz(a, b)[1]

\* RFJaroWinkler is importable wherever rapidfuzz is.
_composite_score(a, b) ==
    LET s == fuzz(a, b)
    IN  (45 * s[1] + 35 * s[2] + 20 * s[3]) \div 100

_text_similarity(a, b) == _composite_score(_normalize_text(a), _normalize_text(b))

\* round(x, 2) of a score in thousandths
Round2(x) == ((x + 5) \div 10) * 10

\* English renditions the translator may give (the empty one: no text returned)
EnPool ==
    << <<"Vata", "dosha", "disorder">>, <<"vata", "dosha">>,
       <<"pitta", "kapha", "jvara">>, <<>>,
       <<"vata", "dosha", "pitta", "kapha", "jvara">> >>

\* Source-language renditions the back translation may give
BackPool ==
    << <<"Vata", "dosha", "vikara">>, <<"pitta", "jvara", ";", "kapha">>,
       <<"kapha", "dosha">>, <<"vata", "vikara">>, <<>> >>

\* IndicTranslator.translate / one element of IndicTranslator.batch_translate
translator_translate(text, src_lang, tgt_lang) ==
    IF tgt_lang = "eng_Latn"
    THEN EnPool[((TextHash(text) + trSeed) % Len(EnPool)) + 1]
    ELSE BackPool[((TextHash(text) + 2 * trSeed) % Len(BackPool)) + 1]

\* Whether the forward translation of text raises (the model or tokenizer fails on
\* it): never for the first Len(EnPool) behaviours, for some texts under the others.
translator_raises(text, src_lang, tgt_lang) ==
    /\ trSeed >= Len(EnPool)
    /\ tgt_lang = "eng_Latn"
    /\ TextHash(text) % 3 = 2

IndicTranslator_translate(text, src_lang, tgt_lang) ==
    IF text = <<>> THEN <<>> ELSE translator_translate(text, src_lang, tgt_lang)

\* A plausible slip: each chunk's outputs put in front of the earlier ones.
RECURSIVE batch_translate_prepending(_, _, _, _)
batch_translate_prepending(texts, src_lang, tgt_lang, batch_size) ==
    IF texts = <<>> THEN <<>>
    ELSE LET n    == IF Len(texts) < batch_size THEN Len(texts) ELSE batch_size
             outs == [i \in 1..n |-> translator_translate(texts[i], src_lang, tgt_lang)]
         IN  batch_translate_prepending(SubSeq(texts, n + 1, Len(texts)), src_lang, tgt_lang,
                                        batch_size) \o outs

\* for i in range(0, len(texts), batch_size): one model call per chunk, the
\* outputs appended in order.  batch_size >= 1.
RECURSIVE IndicTranslator_batch_translate(_, _, _, _)
IndicTranslator_batch_translate(texts, src_lang, tgt_lang, batch_size) ==
    IF texts = <<>> THEN <<>>
    ELSE LET n    == IF Len(texts) < batch_size THEN Len(texts) ELSE batch_size
             outs == [i \in 1..n |-> translator_translate(texts[i], src_lang, tgt_lang)]
         IN  outs \o IndicTranslator_batch_translate(SubSeq(texts, n + 1, Len(texts)),
                                                     src_lang, tgt_lang, batch_size)


(***************************************************************************)
(* Module constants and tables.                                            *)
(***************************************************************************)
None == "None"

NAMASTE_CS ==
    [n \in {"NAMASTE-Ayurveda", "NAMASTE-Siddha", "NAMASTE-Unani"} |->
        CASE n = "NAMASTE-Ayurveda" -> "http://namaste.gov.in/fhir/ayurveda"
          [] n = "NAMASTE-Siddha"   -> "http://namaste.gov.in/fhir/siddha"
          [] OTHER                  -> "http://namaste.gov.in/fhir/unani"]

\* NAMASTE_LANG_TAG.get(source_name)
NAMASTE_LANG_TAG_get(n) ==
    CASE n = "NAMASTE-Ayurveda" -> "hin_Deva"
      [] n = "NAMASTE-Siddha"   -> "hin_Deva"
      [] n = "NAMASTE-Unani"    -> "urd_Arab"
      [] OTHER                  -> None

ICD_BIOMED_URL == "https://id.who.int/icd/release/11/2024-01/mms"

\* tm2_root of db/icd11/_roots.json
TM2_URL == "https://id.who.int/icd/release/11/2024-01/tm2"

BACKTRANS_MIN_SIM == 70000

ACCEPT_SCORE_THRESHOLD == 75000

BATCH_SIZE == 32

PER_SYSTEM_BACKTRANS_get(n, default) ==
    CASE n = "NAMASTE-Ayurveda" -> 60000
      [] n = "NAMASTE-Siddha"   -> 70000
      [] n = "NAMASTE-Unani"    -> 70000
      [] OTHER                  -> default

PER_SYSTEM_ACCEPT_get(n, default) ==
    CASE n = "NAMASTE-Ayurveda" -> 65000
      [] n = "NAMASTE-Siddha"   -> 75000
      [] n = "NAMASTE-Unani"    -> 75000
      [] OTHER                  -> default

\* MIN_TOKEN_OVERLAP = 0.30 as a ratio
MIN_TOKEN_OVERLAP == <<3, 10>>

TOPK_EMBEDDINGS == 50

\* default of find_best_matches' parameter top_k
top_k == 5

\* The module globals as the import of the module leaves them.  USE_PER_SYSTEM is
\* not defined by the module: globals().get("USE_PER_SYSTEM", False) reads FALSE.
\* embed_env is what the embedding helpers will find: "ok", or numpy not importable
\* ("no-numpy"), db/embeddings/icd_alias_embeddings.npz missing or unreadable
\* ("no-artifact"), the sentence-transformers model not loadable ("no-model"), or
\* its encode call failing ("no-query").
DefaultGlobals ==
    [TRANSLATE_TO_EN |-> TRUE, BACKTRANS_MIN_SIM |-> BACKTRANS_MIN_SIM,
     ACCEPT_SCORE_THRESHOLD |-> ACCEPT_SCORE_THRESHOLD,
     DRY_RUN_TRANSLATIONS |-> FALSE, BATCH_SIZE |-> BATCH_SIZE,
     BATCH_TRANSLATE |-> FALSE, FAST_MODE |-> FALSE, USE_EMBEDDINGS |-> FALSE,
     USE_PER_SYSTEM |-> FALSE, args_emit_review_csv |-> FALSE,
     embed_env |-> "no-artifact"]

(***************************************************************************)
(* The corpus: ICD-11 documents under db/icd11 (code and labels, the title *)
(* first) in the order the directory lists them.  XX99 is a crawled        *)
(* document whose code was never inserted into a target code system.       *)
(***************************************************************************)
IcdDocs ==
    << [code |-> "XX99", labels |-> << <<"vata", "dosha", "pitta">> >>],
       [code |-> "TM1",  labels |-> << <<"Vata", "dosha", "disorder">>, <<"vata", "vikara">> >>],
       [code |-> "BA00", labels |-> << <<"vata", "pitta", "kapha", "jvara">> >>],
       [code |-> "TM9",  labels |-> << <<"kapha", "dosha", "disorder">> >>] >>

\* build_icd_alias_index, the fresh build: per document the labels in order, each
\* followed by its normalised variant when that is new.
RECURSIVE DedupLabels(_, _)
DedupLabels(labels, seen) ==
    IF labels = <<>> THEN <<>>
    ELSE LET s    == Head(labels)
             a    == IF s \in seen THEN <<>> ELSE <<s>>
             seen1 == seen \cup {s}
             norm == _normalize_text(s)
             b    == IF norm # <<>> /\ norm \notin seen1 THEN <<norm>> ELSE <<>>
         IN  IF s = <<>> THEN DedupLabels(Tail(labels), seen)
             ELSE a \o b \o DedupLabels(Tail(labels), seen1 \cup {norm})

\* "Build fresh index": one entry per document, in directory order.
FreshIndex(docs) ==
    [i \in 1..Len(docs) |->
        [code |-> docs[i].code, labels |-> DedupLabels(docs[i].labels, {})]]

\* What main's call returns: the index of the documents under db/icd11 (a cache
\* artifact written by an earlier run over the same documents holds the same index).
build_icd_alias_index == FreshIndex(IcdDocs)

\* icd_aliases.get(code, default)
aliases_get(icd_aliases, code, default) ==
    IF \E i \in 1..Len(icd_aliases) : icd_aliases[i].code = code
    THEN icd_aliases[CHOOSE i \in 1..Len(icd_aliases) : icd_aliases[i].code = code].labels
    ELSE default

\* _load_system_synonyms: normalised key -> curated English text; a later entry
\* with the same normalised key replaces an earlier one.
RECURSIVE SynonymMap(_)
SynonymMap(entries) ==
    IF entries = <<>> THEN <<>>
    ELSE LET rest == SynonymMap(SubSeq(entries, 1, Len(entries) - 1))
             e    == entries[Len(entries)]
             k    == _normalize_text(e[1])
         IN  [x \in (DOMAIN rest) \cup {k} |-> IF x = k THEN e[2] ELSE rest[x]]

_load_system_synonyms(source_name) ==
    IF source_name \in DOMAIN synonyms THEN SynonymMap(synonyms[source_name]) ELSE <<>>

\* load_codesystem_ids: the urls among the known code systems that have a row in
\* the CodeSystem table.
load_codesystem_ids ==
    DOMAIN Concept \cap ({NAMASTE_CS[n] : n \in DOMAIN NAMASTE_CS} \cup {TM2_URL, ICD_BIOMED_URL})

\* load_concepts
load_concepts(cs_url) == IF cs_url \in DOMAIN Concept THEN Concept[cs_url] ELSE <<>>

_get_system_thresholds(source_name) ==
    LET use_per_system == cfg.USE_PER_SYSTEM
    IN  [back_min   |-> IF use_per_system
                        THEN PER_SYSTEM_BACKTRANS_get(source_name, cfg.BACKTRANS_MIN_SIM)
                        ELSE cfg.BACKTRANS_MIN_SIM,
         accept_min |-> IF use_per_system
                        THEN PER_SYSTEM_ACCEPT_get(source_name, cfg.ACCEPT_SCORE_THRESHOLD)
                        ELSE cfg.ACCEPT_SCORE_THRESHOLD]


(***************************************************************************)
(* Translation of one text and candidate matching.                         *)
(***************************************************************************)
\* "; ".join(t for t in parts if t)
RECURSIVE JoinSemi(_)
JoinSemi(parts) ==
    IF parts = <<>> THEN <<>>
    ELSE IF Len(parts) = 1 THEN parts[1]
    ELSE parts[1] \o <<";">> \o JoinSemi(Tail(parts))

\* parts = [display] (+ [definition] if definition), joined
SrcJoin(nam) ==
    LET parts == IF nam.definition # <<>> THEN <<nam.display, nam.definition>>
                 ELSE <<nam.display>>
    IN  JoinSemi(SelectSeq(parts, LAMBDA t : t # <<>>))

\* text.strip("; ")
RECURSIVE StripSemi(_)
StripSemi(t) ==
    IF t = <<>> THEN <<>>
    ELSE IF Head(t) = ";" THEN StripSemi(Tail(t))
    ELSE IF t[Len(t)] = ";" THEN StripSemi(SubSeq(t, 1, Len(t) - 1))
    ELSE t

\* f"{nam.display}; {nam.definition}".strip("; ")
DisplayDefinition(nam) == StripSemi(nam.display \o <<";">> \o nam.definition)

\* translator: TRUE for an IndicTranslator, FALSE for None; src_tag may be None.
\* Whether the translator.translate call of _maybe_translate raises; nothing catches it.
_maybe_translate_raises(text, translator, src_tag) ==
    /\ cfg.TRANSLATE_TO_EN /\ text # <<>>
    /\ translator
    /\ src_tag # None /\ src_tag # "eng_Latn"
    /\ translator_raises(text, src_tag, "eng_Latn")

_maybe_translate(text, translator, src_tag) ==
    LET tag == IF src_tag = None THEN "eng_Latn" ELSE src_tag
        en  == IndicTranslator_translate(text, tag, "eng_Latn")
        back == IndicTranslator_translate(en, "eng_Latn", tag)
    IN  IF ~cfg.TRANSLATE_TO_EN \/ text = <<>>
        THEN [en |-> text, tag |-> "eng_Latn", sim |-> 100000, calls |-> {}]
        ELSE IF ~translator
        THEN [en |-> text, tag |-> "eng_Latn", sim |-> 100000, calls |-> {}]
        ELSE IF tag = "eng_Latn"
        THEN [en |-> text, tag |-> tag, sim |-> 100000, calls |-> {}]
        ELSE IF en = <<>>
        THEN [en |-> text, tag |-> tag, sim |-> 0, calls |-> {"forward"}]
        ELSE [en |-> en, tag |-> tag, sim |-> _text_similarity(text, back),
              calls |-> {"forward", "back"}]

\* A plausible slip: the results left in scan order.
SortByScoreDesc_unsorted(s) == s

\* Stable sort by score, descending: list.sort(key=score, reverse=True).  The place
\* of an element: after every element with a higher score and after the earlier
\* elements with the same score.
SortPlace(s, i) ==
    Cardinality({j \in 1..Len(s) : \/ s[j].score > s[i].score
                                   \/ s[j].score = s[i].score /\ j < i}) + 1

\* The elements of s put at their places.
SortByPlaces(s, places) ==
    SubSeq([k \in 1..Len(s) |-> s[CHOOSE i \in 1..Len(s) : places[i] = k]], 1, Len(s))

SortByScoreDesc(s) ==
    SortByPlaces(s, SubSeq([i \in 1..Len(s) |-> SortPlace(s, i)], 1, Len(s)))

\* The embedding artifact and model: codes ranked by cosine similarity to the query.
EmbeddingRanking(en_text) ==
    SortByScoreDesc([i \in 1..Len(IcdDocs) |->
        [code |-> IcdDocs[i].code,
         score |-> (TextHash(en_text) * 7 + TextHash(IcdDocs[i].labels[1]) * 11) % 13]])

_load_icd_embeddings == cfg.embed_env \notin {"no-numpy", "no-artifact"}

\* TRUE when a query vector is returned, FALSE for None
_embed_query(text) == text # <<>> /\ cfg.embed_env \notin {"no-model", "no-query"}

\* A plausible slip: the shortlist computed without looking at what is available.
_shortlist_by_embeddings_unguarded(en_text) ==
    LET ranked == EmbeddingRanking(en_text)
    IN  [i \in 1..Len(ranked) |-> ranked[i].code]

\* None is modelled as the empty list: find_best_matches tests only its truth value.
_shortlist_by_embeddings(en_text) ==
    IF ~cfg.USE_EMBEDDINGS THEN <<>>
    ELSE IF ~_load_icd_embeddings THEN <<>>
    ELSE IF ~_embed_query(en_text) THEN <<>>
    ELSE LET ranked == EmbeddingRanking(en_text)
             k      == IF Len(ranked) < TOPK_EMBEDDINGS THEN Len(ranked) ELSE TOPK_EMBEDDINGS
         IN  [i \in 1..k |-> ranked[i].code]

\* The label scan of find_best_matches: first label with the highest score above 0.
RECURSIVE BestLabel(_, _, _, _)
BestLabel(nam_norm, labels, best, best_label) ==
    IF labels = <<>> THEN [best |-> best, best_label |-> best_label]
    ELSE LET score == _composite_score(nam_norm, _normalize_text(Head(labels)))
         IN  IF score > best
             THEN BestLabel(nam_norm, Tail(labels), score, Head(labels))
             ELSE BestLabel(nam_norm, Tail(labels), best, best_label)

\* The prefilter of the full scan: TRUE when the candidate is skipped.
\* max(MIN_TOKEN_OVERLAP, 0.5) is 0.5.
prefilter_skips(tok_overlap, quick) ==
    \/ cfg.FAST_MODE /\ RatioLt(tok_overlap, 5, 10)
    \/ /\ RatioLt(tok_overlap, MIN_TOKEN_OVERLAP[1], MIN_TOKEN_OVERLAP[2])
       /\ quick < (IF cfg.FAST_MODE THEN 92000 ELSE 90000)

\* A list of one-element lists as the list of their elements.
Flatten1(ss) == SubSeq([i \in 1..Len(ss) |-> ss[i][1]], 1, Len(ss))

\* One candidate code of find_best_matches: <<>> when skipped, else <<match>>.
\* lexical and shortlisted record how the score was obtained.
ScoreCandidate(icd_code, labels, nam_norm, nam_tokens, shortlisted, meta) ==
    LET icd_primary == labels[1]
        tok_overlap == _token_overlap(nam_tokens, _tokens(icd_primary))
        quick       == fuzz_WRatio(nam_norm, _normalize_text(icd_primary))
        skipped     == ~shortlisted /\ prefilter_skips(tok_overlap, quick)
        label_cap   == IF cfg.FAST_MODE THEN 20 ELSE 50
        capped      == SubSeq(labels, 1, IF Len(labels) < label_cap THEN Len(labels) ELSE label_cap)
        b           == BestLabel(nam_norm, capped, 0, <<>>)
        \* 100 * (0.5 * 1.0 + 0.35 * best / 100 + 0.15 * back_sim / 100)
        final_score == 50000 + (35 * b.best + 15 * meta.back_sim) \div 100
        decision_score == IF shortlisted THEN final_score ELSE b.best
    IN  IF labels = <<>> THEN <<>>
        ELSE IF skipped THEN <<>>
        ELSE IF b.best_label = <<>> THEN <<>>
        ELSE << [code |-> icd_code, label |-> b.best_label, score |-> decision_score,
                 meta |-> meta, lexical |-> b.best, shortlisted |-> shortlisted] >>

\* The scan over the candidates, in order: the matches of those not skipped.
ScoreAll(cands, nam_norm, nam_tokens, shortlisted, meta) ==
    Flatten1(SelectSeq([i \in 1..Len(cands) |->
                          ScoreCandidate(cands[i].code, cands[i].labels, nam_norm, nam_tokens,
                                         shortlisted, meta)],
                      LAMBDA r : r # <<>>))

\* results after results.sort(key=score, reverse=True), before the return.
find_best_matches_results(nam, icd_aliases, translator, src_lang_tag) ==
    LET src_join == SrcJoin(nam)
        tr       == _maybe_translate(src_join, translator, src_lang_tag)
        nam_norm   == _normalize_text(tr.en)
        nam_tokens == _tokens(tr.en)
        shortlist_codes == IF cfg.USE_EMBEDDINGS THEN _shortlist_by_embeddings(tr.en) ELSE <<>>
        shortlisted == shortlist_codes # <<>>
        iterable == IF shortlisted
                    THEN [i \in 1..Len(shortlist_codes) |->
                            [code |-> shortlist_codes[i],
                             labels |-> aliases_get(icd_aliases, shortlist_codes[i], <<>>)]]
                    ELSE icd_aliases
        meta     == [src_text |-> src_join, src_lang |-> tr.tag, en_text |-> tr.en,
                     back_sim |-> tr.sim]
    IN  IF src_join = <<>> THEN <<>>
        ELSE SortByScoreDesc(ScoreAll(iterable, nam_norm, nam_tokens, shortlisted, meta))

\* results[: max(top_k * 20, 50)]
results_cut(results) ==
    SubSeq(results, 1, IF Len(results) < Max2(top_k * 20, 50) THEN Len(results)
                       ELSE Max2(top_k * 20, 50))

find_best_matches(nam, icd_aliases, translator, src_lang_tag) ==
    results_cut(find_best_matches_results(nam, icd_aliases, translator, src_lang_tag))

\* What the full scan of find_best_matches saw of each code with labels: its token
\* overlap and quick ratio against the primary label, and whether it was skipped.
\* Empty when a shortlist is iterated instead.
find_best_matches_scan(nam, icd_aliases, translator, src_lang_tag) ==
    LET tr         == _maybe_translate(SrcJoin(nam), translator, src_lang_tag)
        nam_norm   == _normalize_text(tr.en)
        nam_tokens == _tokens(tr.en)
        shortlisted == cfg.USE_EMBEDDINGS /\ _shortlist_by_embeddings(tr.en) # <<>>
        with_labels == SelectSeq(icd_aliases, LAMBDA e : e.labels # <<>>)
    IN  IF SrcJoin(nam) = <<>> \/ shortlisted THEN <<>>
        ELSE [i \in 1..Len(with_labels) |->
                LET tok_overlap == _token_overlap(nam_tokens, _tokens(with_labels[i].labels[1]))
                    quick == fuzz_WRatio(nam_norm, _normalize_text(with_labels[i].labels[1]))
                IN  [code |-> with_labels[i].code, tok_overlap |-> tok_overlap,
                     quick |-> quick, skipped |-> prefilter_skips(tok_overlap, quick)]]

\* Whether find_best_matches raises for nam: src_join empty returns before translating.
find_best_matches_raises(nam, translator, src_lang_tag) ==
    SrcJoin(nam) # <<>> /\ _maybe_translate_raises(SrcJoin(nam), translator, src_lang_tag)

\* The external translate calls find_best_matches makes for nam.
find_best_matches_calls(nam, translator, src_lang_tag) ==
    IF SrcJoin(nam) = <<>> THEN {}
    ELSE _maybe_translate(SrcJoin(nam), translator, src_lang_tag).calls


(***************************************************************************)
(* The TranslationCache table.                                             *)
(***************************************************************************)
\* The CodeSystem table: step3 inserted every code system.
CodeSystem ==
    {NAMASTE_CS[n] : n \in DOMAIN NAMASTE_CS} \cup {TM2_URL, ICD_BIOMED_URL}

_load_cached_translations(cs_url) ==
    IF cs_url \notin CodeSystem THEN {}
    ELSE {r \in TranslationCache : r.codesystem = cs_url}

_upsert_cached_translation(cache, cs_url, code, en_joined, src_lang, back_sim) ==
    IF cs_url \notin CodeSystem THEN cache
    ELSE {r \in cache : ~(r.codesystem = cs_url /\ r.code = code)}
         \cup {[codesystem |-> cs_url, code |-> code, en_joined |-> en_joined,
                src_lang |-> src_lang, back_sim |-> back_sim]}

(***************************************************************************)
(* map_system, batch mode: texts translated once before matching.          *)
(***************************************************************************)
\* The pass over source_concepts: overrides, cache hits, and the queue.
RECURSIVE BatchScan(_, _, _, _, _)
BatchScan(concepts, sys_synonyms, cached, src_tag, acc) ==
    IF concepts = <<>> THEN acc
    ELSE LET nam      == Head(concepts)
             joined   == SrcJoin(nam)
             norm_src == _normalize_text(joined)
             lang     == IF src_tag = None THEN "eng_Latn" ELSE src_tag
             hit      == {r \in cached : r.code = nam.code /\ r.en_joined # <<>>}
             acc1     ==
                IF norm_src \in DOMAIN sys_synonyms
                THEN [acc EXCEPT !.pre = (nam.code :> [en |-> sys_synonyms[norm_src],
                                                       lang |-> lang, sim |-> 100000,
                                                       from |-> "synonym"]) @@ @]
                ELSE IF hit # {}
                THEN LET r == CHOOSE r \in hit : TRUE
                     IN  [acc EXCEPT !.pre = (nam.code :> [en |-> r.en_joined,
                                                           lang |-> r.src_lang,
                                                           sim |-> r.back_sim,
                                                           from |-> "cache"]) @@ @]
                ELSE [acc EXCEPT !.codes = Append(@, nam.code),
                                 !.joined_texts = Append(@, joined)]
         IN  BatchScan(Tail(concepts), sys_synonyms, cached, src_tag, acc1)

\* for code, src_text, en_text, back_text in zip(...): record and persist to the cache
RECURSIVE BatchCollect(_, _, _, _, _, _, _)
BatchCollect(i, scan, en_list, back_list, src_tag, source_url, acc) ==
    IF i > Len(scan.codes) \/ i > Len(en_list) \/ i > Len(back_list) THEN acc
    ELSE LET code == scan.codes[i]
             lang == IF src_tag = None THEN "eng_Latn" ELSE src_tag
             sim  == IF src_tag # None /\ src_tag # "eng_Latn"
                     THEN _text_similarity(scan.joined_texts[i], back_list[i])
                     ELSE 100000
             acc1 == [pre   |-> (code :> [en |-> en_list[i], lang |-> lang, sim |-> sim,
                                          from |-> "fresh"]) @@ acc.pre,
                      cache |-> _upsert_cached_translation(acc.cache, source_url, code,
                                                           en_list[i], lang, sim)]
         IN  BatchCollect(i + 1, scan, en_list, back_list, src_tag, source_url, acc1)

\* Returns the pre-translations (code -> text, language, similarity), the cache
\* table afterwards, and the codes whose text went to the external translator.
BatchPretranslate(source_name, source_url, source_concepts, sys_synonyms) ==
    LET src_tag == NAMASTE_LANG_TAG_get(source_name)
        lang    == IF src_tag = None THEN "eng_Latn" ELSE src_tag
        cached  == _load_cached_translations(source_url)
        scan    == BatchScan(source_concepts, sys_synonyms, cached, src_tag,
                             [pre |-> <<>>, codes |-> <<>>, joined_texts |-> <<>>])
        en_list == IF scan.joined_texts # <<>>
                   THEN IndicTranslator_batch_translate(scan.joined_texts, lang, "eng_Latn",
                                                        cfg.BATCH_SIZE)
                   ELSE <<>>
        back_list == IF en_list # <<>>
                     THEN IndicTranslator_batch_translate(en_list, "eng_Latn", lang, cfg.BATCH_SIZE)
                     ELSE <<>>
        done    == BatchCollect(1, scan, en_list, back_list, src_tag, source_url,
                                [pre |-> scan.pre, cache |-> TranslationCache])
    IN  [pre   |-> done.pre,
         cache |-> done.cache,
         raised |-> \E i \in 1..Len(scan.joined_texts) :
                        translator_raises(scan.joined_texts[i], lang, "eng_Latn"),
         calls |-> {[code |-> scan.codes[i], dir |-> d, mode |-> "batch"] :
                        i \in 1..Len(scan.codes), d \in {"forward", "back"}}]


(***************************************************************************)
(* map_system, mapping mode: one source concept against one target system. *)
(* The result names the branch taken ("outcome") beside what is appended.  *)
(***************************************************************************)
icd_targets == <<TM2_URL, ICD_BIOMED_URL>>

target_codes(t_url) == {load_concepts(t_url)[i].code : i \in 1..Len(load_concepts(t_url))}

\* candidates of a review row: [(c, l, s) for (c, l, s, _m) in top5_all]
Candidates(ms) == [i \in 1..Len(ms) |-> [code |-> ms[i].code, label |-> ms[i].label,
                                         score |-> ms[i].score]]

\* A plausible slip: the acceptance test dropped.
AcceptRejects_never(top_score, accept_min) == FALSE

\* A plausible slip: the acceptance test compares against the review band's top.
AcceptRejects_band(top_score, accept_min) == top_score <= 85000

\* if top_score < accept_min
AcceptRejects(top_score, accept_min) == top_score < accept_min

\* A plausible slip: the candidates are not restricted to the target's codes.
best_here_unfiltered(matches, t_codes) == matches

\* A plausible slip: the last candidate of the target taken instead of the first.
best_here_last(matches, t_codes) ==
    LET here == SelectSeq(matches, LAMBDA m : m.code \in t_codes)
    IN  IF here = <<>> THEN <<>> ELSE <<here[Len(here)]>>

\* best_here = [m for m in matches if m[0] in t_codes]
best_here_of(matches, t_codes) == SelectSeq(matches, LAMBDA m : m.code \in t_codes)

MatchTarget(nam, t_url, cm, use_batch, sys_synonyms, th, icd_aliases_full) ==
    LET matches   == cm.matches
        en_text   == cm.en_text
        src_lang  == cm.src_lang
        back_sim  == cm.back_sim
        best_here == best_here_of(matches, target_codes(t_url))
        top       == best_here[1]
        meta      == top.meta
        gated     == /\ cfg.TRANSLATE_TO_EN
                     /\ meta.src_lang # "eng_Latn"
                     /\ meta.back_sim < th.back_min
                     /\ _normalize_text(meta.src_text) \notin DOMAIN sys_synonyms
        top5_all  == SubSeq(matches, 1, IF Len(matches) < 5 THEN Len(matches) ELSE 5)
        icd_primary == aliases_get(icd_aliases_full, top.code, <<top.label>>)[1]
        rel_text  == IF use_batch THEN en_text
                     ELSE IF meta.en_text # <<>> THEN meta.en_text
                     ELSE DisplayDefinition(nam)
        rel       == decide_relationship(rel_text, icd_primary, top.score)
        base      == [source_code |-> nam.code, target |-> t_url,
                      first_code |-> IF matches = <<>> THEN "" ELSE matches[1].code,
                      ranked |-> [i \in 1..Len(matches) |->
                                    [code |-> matches[i].code, score |-> matches[i].score,
                                     lexical |-> matches[i].lexical,
                                     shortlisted |-> matches[i].shortlisted,
                                     back_sim |-> matches[i].meta.back_sim]],
                      scan |-> cm.scan]
        seen      == base @@ [top |-> top, rel_text |-> rel_text, icd_primary |-> icd_primary]
    IN  IF best_here = <<>>
        THEN base @@ [outcome |-> "no-candidate"]
        ELSE IF gated
        THEN seen @@ [outcome |-> "gate-rejected"]
        ELSE IF AcceptRejects(top.score, th.accept_min)
        THEN IF 50000 <= top.score /\ top.score <= 85000
             THEN seen @@
                  [outcome |-> "review",
                   review  |-> [source_code |-> nam.code,
                                source_display |-> nam.display,
                                translated_text |-> meta.en_text,
                                back_sim |-> meta.back_sim,
                                candidates |-> Candidates(top5_all),
                                suggested_relationship |->
                                    IF top.score >= 70000 THEN "related-to" ELSE "review",
                                final_score |-> top.score]]
             ELSE seen @@ [outcome |-> "rejected"]
        ELSE IF rel = NoRel
        THEN seen @@ [outcome |-> "no-relationship"]
        ELSE seen @@
             [outcome |-> "mapped",
              mapping |-> [source_code |-> nam.code,
                           source_display |-> nam.display,
                           target_code |-> top.code,
                           target_display |-> top.label,
                           mapping_type |-> rel,
                           confidence |-> Round2(top.score),
                           src_lang |-> IF use_batch THEN src_lang ELSE meta.src_lang,
                           translated_text |-> IF use_batch THEN en_text ELSE meta.en_text,
                           backtranslation_similarity |->
                               Round2(IF use_batch THEN back_sim ELSE meta.back_sim)]]

\* matches = [(c, l, s, {**m, "src_lang": src_lang, "en_text": en_text, "back_sim": back_sim})
\*            for (c, l, s, m) in matches]
AttachMeta(found, src_lang, en_text, back_sim) ==
    [i \in 1..Len(found) |->
        [found[i] EXCEPT !.meta = [src_text |-> @.src_text, src_lang |-> src_lang,
                                   en_text |-> en_text, back_sim |-> back_sim]]]

\* The matches of one source concept, as the mapping loop obtains them.
ConceptMatches(nam, source_name, use_batch, pre, icd_aliases_full) ==
    LET fallback == DisplayDefinition(nam)
        en_text  == IF nam.code \in DOMAIN pre /\ pre[nam.code].en # <<>>
                    THEN pre[nam.code].en ELSE fallback
        src_lang == IF nam.code \in DOMAIN pre THEN pre[nam.code].lang
                    ELSE IF NAMASTE_LANG_TAG_get(source_name) = None THEN "eng_Latn"
                    ELSE NAMASTE_LANG_TAG_get(source_name)
        back_sim == IF nam.code \in DOMAIN pre THEN pre[nam.code].sim ELSE 100000
        temp     == [code |-> nam.code, display |-> en_text, definition |-> <<>>]
    IN  IF use_batch
        THEN [en_text |-> en_text, src_lang |-> src_lang, back_sim |-> back_sim,
              matches |-> AttachMeta(find_best_matches(temp, icd_aliases_full, FALSE, "eng_Latn"),
                                     src_lang, en_text, back_sim),
              scan    |-> find_best_matches_scan(temp, icd_aliases_full, FALSE, "eng_Latn")]
        ELSE [en_text |-> <<>>, src_lang |-> "", back_sim |-> 0,
              matches |-> find_best_matches(nam, icd_aliases_full, cfg.TRANSLATE_TO_EN,
                                            NAMASTE_LANG_TAG_get(source_name)),
              scan    |-> find_best_matches_scan(nam, icd_aliases_full, cfg.TRANSLATE_TO_EN,
                                                 NAMASTE_LANG_TAG_get(source_name))]

\* One iteration of "for t_url in icd_targets" per target, in order.
TargetLoop(nam, cm, use_batch, sys_synonyms, th, icd_aliases_full) ==
    [t \in 1..Len(icd_targets) |->
        MatchTarget(nam, icd_targets[t], cm, use_batch, sys_synonyms, th, icd_aliases_full)]

\* The decisions for one source concept, one per target system in order.
ConceptDecisions(nam, source_name, use_batch, pre, sys_synonyms, th, icd_aliases_full) ==
    TargetLoop(nam, ConceptMatches(nam, source_name, use_batch, pre, icd_aliases_full),
               use_batch, sys_synonyms, th, icd_aliases_full)

RECURSIVE Flatten(_)
Flatten(ss) == IF ss = <<>> THEN <<>> ELSE Head(ss) \o Flatten(Tail(ss))


(***************************************************************************)
(* map_system.                                                             *)
(***************************************************************************)
\* map_system left by an exception: nothing is returned, and the cache rows written
\* before it (none: the batch translation precedes the first upsert) stay.
AbortedRun(source_name) ==
    [source |-> source_name,
     mappings_per_target |-> [t \in Range(icd_targets) |-> <<>>],
     unmapped |-> <<>>, review_rows |-> <<>>, review_csv |-> <<>>, decisions |-> <<>>,
     audits |-> <<>>, th |-> _get_system_thresholds(source_name),
     emit_review_csv |-> cfg.args_emit_review_csv, aborted |-> TRUE,
     translate |-> cfg.TRANSLATE_TO_EN, dry_run |-> cfg.DRY_RUN_TRANSLATIONS,
     use_batch |-> cfg.TRANSLATE_TO_EN /\ cfg.BATCH_TRANSLATE, globals |-> cfg,
     cache_before |-> TranslationCache, cache |-> TranslationCache, calls |-> {}]

\* Whether the dry run's batch_translate raises.
DryRunRaises(source_name, source_url) ==
    LET sys_synonyms == _load_system_synonyms(source_name)
        src_tag      == NAMASTE_LANG_TAG_get(source_name)
        lang         == IF src_tag = None THEN "eng_Latn" ELSE src_tag
        source_concepts == load_concepts(source_url)
    IN  /\ cfg.TRANSLATE_TO_EN
        /\ \E i \in 1..Len(source_concepts) :
              /\ _normalize_text(SrcJoin(source_concepts[i])) \notin DOMAIN sys_synonyms
              /\ translator_raises(SrcJoin(source_concepts[i]), lang, "eng_Latn")

\* The dry run: translation audits only.
DryRunAudit(source_name, source_url) ==
    LET source_concepts == load_concepts(source_url)
        th           == _get_system_thresholds(source_name)
        sys_synonyms == _load_system_synonyms(source_name)
        src_tag      == NAMASTE_LANG_TAG_get(source_name)
        lang         == IF src_tag = None THEN "eng_Latn" ELSE src_tag
        whitelisted(nam) == _normalize_text(SrcJoin(nam)) \in DOMAIN sys_synonyms
        white        == SelectSeq(source_concepts, whitelisted)
        to_translate == SelectSeq(source_concepts, LAMBDA nam : ~whitelisted(nam))
        texts        == [i \in 1..Len(to_translate) |-> SrcJoin(to_translate[i])]
        translating  == cfg.TRANSLATE_TO_EN /\ texts # <<>>
        en_list      == IF translating
                        THEN IndicTranslator_batch_translate(texts, lang, "eng_Latn", cfg.BATCH_SIZE)
                        ELSE <<>>
        back_list    == IF translating
                        THEN IndicTranslator_batch_translate(en_list, "eng_Latn", lang, cfg.BATCH_SIZE)
                        ELSE <<>>
        audits ==
            [i \in 1..Len(white) |->
                [code |-> white[i].code, src_lang |-> lang,
                 source_text |-> SrcJoin(white[i]),
                 translated_text |-> sys_synonyms[_normalize_text(SrcJoin(white[i]))],
                 backtranslation_similarity |-> 100000, note |-> "whitelisted"]]
            \o
            [i \in 1..Len(to_translate) |->
                [code |-> to_translate[i].code, src_lang |-> lang,
                 source_text |-> texts[i],
                 translated_text |-> IF i <= Len(en_list) THEN en_list[i] ELSE texts[i],
                 backtranslation_similarity |->
                    Round2(IF src_tag # None /\ src_tag # "eng_Latn"
                           THEN _text_similarity(texts[i],
                                    IF i <= Len(back_list) THEN back_list[i] ELSE texts[i])
                           ELSE 100000),
                 note |-> ""]]
        low == SelectSeq(audits, LAMBDA a : a.backtranslation_similarity < th.back_min)
    IN  [source |-> source_name,
         mappings_per_target |-> [t \in Range(icd_targets) |-> <<>>],
         unmapped    |-> [i \in 1..Len(low) |-> low[i].code],
         review_rows |-> <<>>,
         review_csv  |-> <<>>,
         decisions   |-> <<>>,
         audits      |-> audits,
         th          |-> th,
         emit_review_csv |-> cfg.args_emit_review_csv,
         aborted     |-> FALSE,
         translate |-> cfg.TRANSLATE_TO_EN, dry_run |-> cfg.DRY_RUN_TRANSLATIONS,
         use_batch |-> cfg.TRANSLATE_TO_EN /\ cfg.BATCH_TRANSLATE, globals |-> cfg,
         cache_before |-> TranslationCache,
         cache       |-> TranslationCache,
         calls       |-> IF translating
                         THEN {[code |-> to_translate[i].code, dir |-> d, mode |-> "batch"] :
                                  i \in 1..Len(to_translate), d \in {"forward", "back"}}
                         ELSE {}]

\* write_review_csv: per row the five candidate slots, scores rounded, blanks padded
write_review_csv(rows) ==
    [r \in 1..Len(rows) |->
        [source_code |-> rows[r].source_code,
         back_sim |-> Round2(rows[r].back_sim),
         flat |-> [i \in 1..5 |->
                     IF i <= Len(rows[r].candidates)
                     THEN [code |-> rows[r].candidates[i].code,
                           label |-> rows[r].candidates[i].label,
                           score |-> Round2(rows[r].candidates[i].score)]
                     ELSE [code |-> "", label |-> <<>>, score |-> -1]],
         suggested_relationship |-> rows[r].suggested_relationship,
         final_score |-> Round2(rows[r].final_score)]]

\* The mapping loop over source_concepts, given the pre-translations bp.
MappingLoop(source_name, source_concepts, use_batch, bp, sys_synonyms, th, icd_aliases_full) ==
    Flatten([i \in 1..Len(source_concepts) |->
                ConceptDecisions(source_concepts[i], source_name, use_batch, bp.pre,
                                 sys_synonyms, th, icd_aliases_full)])

\* A plausible slip: found_any required of every target instead of any.
unmapped_unless_all(source_concepts, decisions) ==
    LET not_found == SelectSeq(source_concepts, LAMBDA nam :
                        \E i \in 1..Len(decisions) :
                            decisions[i].source_code = nam.code /\ decisions[i].outcome # "mapped")
    IN  [i \in 1..Len(not_found) |-> not_found[i].code]

\* found_any = False per concept, True at each append; if not found_any: unmapped.append
unmapped_of(source_concepts, decisions) ==
    LET not_found == SelectSeq(source_concepts, LAMBDA nam :
                        ~\E i \in 1..Len(decisions) :
                            decisions[i].source_code = nam.code /\ decisions[i].outcome = "mapped")
    IN  [i \in 1..Len(not_found) |-> not_found[i].code]

\* What map_system returns and leaves behind, given the decisions of its loop.
MappingResult(source_name, source_concepts, use_batch, bp, th, decisions) ==
    LET mapped(t) == SelectSeq(decisions, LAMBDA d : d.target = t /\ d.outcome = "mapped")
        reviews   == SelectSeq(decisions, LAMBDA d : d.outcome = "review")
        review_rows == [i \in 1..Len(reviews) |-> reviews[i].review]
        single_calls ==
            UNION {{[code |-> source_concepts[i].code, dir |-> d, mode |-> "single"] :
                        d \in find_best_matches_calls(source_concepts[i], cfg.TRANSLATE_TO_EN,
                                                      NAMASTE_LANG_TAG_get(source_name))} :
                   i \in 1..Len(source_concepts)}
    IN  [source |-> source_name,
         mappings_per_target |->
            [t \in Range(icd_targets) |-> [i \in 1..Len(mapped(t)) |-> mapped(t)[i].mapping]],
         unmapped    |-> unmapped_of(source_concepts, decisions),
         review_rows |-> review_rows,
         review_csv  |-> IF cfg.args_emit_review_csv /\ review_rows # <<>>
                         THEN write_review_csv(review_rows) ELSE <<>>,
         decisions   |-> decisions,
         audits      |-> <<>>,
         th          |-> th,
         emit_review_csv |-> cfg.args_emit_review_csv,
         aborted     |-> FALSE,
         translate |-> cfg.TRANSLATE_TO_EN, dry_run |-> cfg.DRY_RUN_TRANSLATIONS,
         use_batch |-> cfg.TRANSLATE_TO_EN /\ cfg.BATCH_TRANSLATE, globals |-> cfg,
         cache_before |-> TranslationCache,
         cache       |-> bp.cache,
         calls       |-> IF use_batch THEN bp.calls ELSE single_calls]

\* The pre-translation step of the mapping mode.
Pretranslate(source_name, source_url, source_concepts, use_batch, sys_synonyms) ==
    IF use_batch
    THEN BatchPretranslate(source_name, source_url, source_concepts, sys_synonyms)
    ELSE [pre |-> <<>>, cache |-> TranslationCache, raised |-> FALSE, calls |-> {}]

\* Whether the mapping mode raises: in the batch translation, or in the
\* find_best_matches call of some concept of the loop.
MappingRaises(source_name, source_concepts, use_batch, bp) ==
    IF use_batch THEN bp.raised
    ELSE \E i \in 1..Len(source_concepts) :
            find_best_matches_raises(source_concepts[i], cfg.TRANSLATE_TO_EN,
                                     NAMASTE_LANG_TAG_get(source_name))

MappingWith(source_name, source_concepts, use_batch, bp, sys_synonyms, th, icd_aliases_full) ==
    IF MappingRaises(source_name, source_concepts, use_batch, bp)
    THEN AbortedRun(source_name)
    ELSE MappingResult(source_name, source_concepts, use_batch, bp, th,
                       MappingLoop(source_name, source_concepts, use_batch, bp, sys_synonyms,
                                   th, icd_aliases_full))

\* The mapping mode.
MappingRun(source_name, source_url) ==
    MappingWith(source_name, load_concepts(source_url),
                cfg.TRANSLATE_TO_EN /\ cfg.BATCH_TRANSLATE,
                Pretranslate(source_name, source_url, load_concepts(source_url),
                             cfg.TRANSLATE_TO_EN /\ cfg.BATCH_TRANSLATE,
                             _load_system_synonyms(source_name)),
                _load_system_synonyms(source_name), _get_system_thresholds(source_name),
                build_icd_alias_index)

\* Mutation of map_system: the dry-run switch is not looked at.
map_system_without_dry_run(source_name, source_url) == MappingRun(source_name, source_url)

map_system(source_name, source_url) ==
    IF cfg.DRY_RUN_TRANSLATIONS
    THEN IF DryRunRaises(source_name, source_url) THEN AbortedRun(source_name)
         ELSE DryRunAudit(source_name, source_url)
    ELSE MappingRun(source_name, source_url)

(***************************************************************************)
(* persist_db.                                                             *)
(***************************************************************************)
SameKey(r, q) ==
    /\ r.source_codesystem = q.source_codesystem /\ r.source_code = q.source_code
    /\ r.target_codesystem = q.target_codesystem /\ r.target_code = q.target_code

\* A plausible slip: a plain INSERT into a table without the UNIQUE constraint.
InsertAlways(table, row) == Append(table, row)

\* A plausible slip: INSERT OR REPLACE, the stored row overwritten by the new one.
InsertOrReplace(table, row) ==
    IF \E i \in 1..Len(table) : SameKey(table[i], row)
    THEN [i \in 1..Len(table) |-> IF SameKey(table[i], row) THEN row ELSE table[i]]
    ELSE Append(table, row)

\* INSERT OR IGNORE under UNIQUE(source_codesystem_id, source_code, target_codesystem_id, target_code)
InsertOrIgnore(table, row) ==
    IF \E i \in 1..Len(table) : SameKey(table[i], row) THEN table ELSE Append(table, row)

RECURSIVE InsertMaps(_, _, _, _)
InsertMaps(table, source_url, tgt_url, maps) ==
    IF maps = <<>> THEN table
    ELSE LET m == Head(maps)
             row == [source_codesystem |-> source_url, source_code |-> m.source_code,
                     target_codesystem |-> tgt_url, target_code |-> m.target_code,
                     mapping_type |-> m.mapping_type, confidence |-> m.confidence,
                     src_lang |-> m.src_lang, translated_text |-> m.translated_text,
                     backtranslation_similarity |-> m.backtranslation_similarity,
                     source_display |-> m.source_display,
                     target_display |-> m.target_display]
         IN  InsertMaps(InsertOrIgnore(table, row), source_url, tgt_url, Tail(maps))

RECURSIVE PersistGroups(_, _, _, _)
PersistGroups(table, source_url, targets, mappings_per_target) ==
    IF targets = <<>> THEN table
    ELSE LET t == Head(targets)
             next == IF t \notin CodeSystem THEN table
                     ELSE InsertMaps(table, source_url, t, mappings_per_target[t])
         IN  PersistGroups(next, source_url, Tail(targets), mappings_per_target)

persist_db(table, source_url, mappings_per_target) ==
    IF source_url \notin CodeSystem THEN table
    ELSE PersistGroups(table, source_url, icd_targets, mappings_per_target)


(***************************************************************************)
(* main: the command line, then per source system map_system, the output   *)
(* files and persist_db.                                                   *)
(***************************************************************************)
MaxRuns == 2

AcceptChoices == {ACCEPT_SCORE_THRESHOLD, 65000}

SystemChoices == {"NAMASTE-Ayurveda", "NAMASTE-Siddha", None}

\* argparse's namespace for every command line over the options explored.
AllArgs ==
    {[no_translate |-> nt, translate |-> FALSE, backtrans_min |-> BACKTRANS_MIN_SIM,
      accept_score |-> ac, dry_run_translations |-> dr, batch_size |-> BATCH_SIZE,
      batch_translate |-> bt, use_per_system_thresholds |-> ps, use_embeddings |-> ue,
      emit_review_csv |-> er, system |-> sy, fast |-> FALSE] :
        nt \in BOOLEAN, ac \in AcceptChoices, dr \in BOOLEAN, bt \in BOOLEAN,
        ps \in BOOLEAN, ue \in BOOLEAN, er \in BOOLEAN, sy \in SystemChoices}

\* The command lines of a first run: options that cannot matter are left at their
\* defaults (--batch-translate without translation, thresholds in a dry run), and
\* --use-per-system-thresholds and --use-embeddings are each tried with the other
\* options at their defaults.
ArgChoices ==
    {a \in AllArgs :
        /\ a.no_translate => ~a.batch_translate
        /\ a.use_embeddings =>
                /\ ~a.no_translate /\ ~a.dry_run_translations /\ ~a.batch_translate
                /\ ~a.emit_review_csv /\ a.accept_score = ACCEPT_SCORE_THRESHOLD
                /\ ~a.use_per_system_thresholds
        /\ a.use_per_system_thresholds =>
                /\ ~a.no_translate /\ ~a.dry_run_translations /\ ~a.batch_translate
                /\ ~a.emit_review_csv /\ a.accept_score = ACCEPT_SCORE_THRESHOLD
        /\ a.dry_run_translations =>
                ~a.emit_review_csv /\ a.accept_score = ACCEPT_SCORE_THRESHOLD}

\* A rerun repeats a single-system command line, or repeats it with
\* --batch-translate flipped, or follows a batch-mode mapping run with a dry run.
RerunChoices(last) ==
    IF last.system = None THEN {}
    ELSE {last} \cup {[last EXCEPT !.batch_translate = ~@] :
                        x \in {y \in {1} : ~last.no_translate}}
               \cup {[last EXCEPT !.dry_run_translations = TRUE] :
                        x \in {y \in {1} : /\ last.batch_translate
                                            /\ ~last.dry_run_translations
                                            /\ ~last.emit_review_csv}}

NoArgs == [a \in {} |-> FALSE]

\* "Apply CLI overrides": main declares neither USE_EMBEDDINGS nor USE_PER_SYSTEM
\* global, so its assignments to them bind locals and the module globals stay.
ApplyCliOverrides(g, args) ==
    [g EXCEPT
        !.TRANSLATE_TO_EN = IF args.no_translate THEN FALSE
                            ELSE IF args.translate THEN TRUE ELSE @,
        !.BACKTRANS_MIN_SIM = args.backtrans_min,
        !.ACCEPT_SCORE_THRESHOLD = args.accept_score,
        !.DRY_RUN_TRANSLATIONS = args.dry_run_translations,
        !.BATCH_SIZE = args.batch_size,
        !.BATCH_TRANSLATE = args.batch_translate,
        !.args_emit_review_csv = args.emit_review_csv,
        !.FAST_MODE = args.fast,
        \* --use-embeddings "requires precompute": the artifact and the model are there
        !.embed_env = IF args.use_embeddings THEN "ok" ELSE @]

\* iter_items
IterItems(args) ==
    IF args.system # None THEN <<args.system>>
    ELSE <<"NAMASTE-Ayurveda", "NAMASTE-Siddha", "NAMASTE-Unani">>

EmptyRun ==
    [source |-> "", mappings_per_target |-> [t \in Range(icd_targets) |-> <<>>],
     unmapped |-> <<>>, review_rows |-> <<>>, review_csv |-> <<>>, decisions |-> <<>>,
     audits |-> <<>>, th |-> [back_min |-> BACKTRANS_MIN_SIM, accept_min |-> ACCEPT_SCORE_THRESHOLD],
     emit_review_csv |-> FALSE, aborted |-> FALSE, translate |-> TRUE, dry_run |-> FALSE,
     use_batch |-> FALSE, globals |-> DefaultGlobals, cache_before |-> {}, cache |-> {},
     calls |-> {}]

\* The files map_system wrote: the translation audit of a dry run, the review CSV.
map_system_files(r) ==
    {[kind |-> "translation_audit", system |-> r.source] :
        x \in {y \in {1} : ~r.aborted /\ r.dry_run}}
    \cup {[kind |-> "review_csv", system |-> r.source] :
        x \in {y \in {1} : r.review_csv # <<>>}}

\* The files main writes after map_system returned: write_fhir_conceptmap, write_csv,
\* the unmapped list, and after the last system the report.
main_files(src_name, last) ==
    {[kind |-> k, system |-> src_name] : k \in {"conceptmap_json", "conceptmap_csv", "unmapped"}}
    \cup {[kind |-> "report", system |-> ""] : x \in {y \in {1} : last}}

\* A database step3_store_db.py never filled: no row in CodeSystem, none in Concept.
EmptyDb == [u \in {} |-> <<>>]

\* A process starts: argv parsed, globals set, the systems to map listed.
main_parse_args(args) ==
    /\ pc = "idle"
    /\ runs < MaxRuns
    /\ args \in (IF runs = 0 THEN ArgChoices ELSE RerunChoices(argv))
    /\ argv' = args
    /\ runs' = runs + 1
    /\ prev' = [argv |-> argv, rows |-> Len(ConceptMap), run |-> run]
    \* "Database empty or missing CodeSystems": main returns before the loop
    /\ cfg' = IF load_codesystem_ids = {} THEN DefaultGlobals
              ELSE ApplyCliOverrides(DefaultGlobals, args)
    /\ pending' = IF load_codesystem_ids = {} THEN <<>> ELSE IterItems(args)
    /\ pc' = IF load_codesystem_ids = {} THEN "idle" ELSE "configured"
    /\ out_files' = {}
    /\ UNCHANGED <<Concept, TranslationCache, ConceptMap, synonyms, fzSeed, trSeed,
                   run, classify, icd_cache, tree, sem>>

\* mappings_per_target, unmapped = map_system(conn, src_name, src_url, icd_targets)
\* main catches nothing.
main_map_system ==
    /\ pc = "configured"
    /\ pending # <<>>
    /\ run' = map_system(Head(pending), NAMASTE_CS[Head(pending)])
    /\ TranslationCache' = run'.cache
    \* an exception leaves main: the process ends, later systems unmapped
    /\ pc' = IF run'.aborted THEN "idle" ELSE "mapped"
    /\ pending' = IF run'.aborted THEN <<>> ELSE pending
    /\ cfg' = IF run'.aborted THEN DefaultGlobals ELSE cfg
    /\ out_files' = out_files \cup map_system_files(run')
    /\ UNCHANGED <<Concept, ConceptMap, synonyms, fzSeed, trSeed, argv, runs, prev,
                   classify, icd_cache, tree, sem>>

\* The rest of the loop body: output files, persist_db unless a dry run; after the
\* last system the report is written and the process ends.
main_persist ==
    /\ pc = "mapped"
    /\ ConceptMap' = IF cfg.DRY_RUN_TRANSLATIONS THEN ConceptMap
                     ELSE persist_db(ConceptMap, NAMASTE_CS[run.source],
                                     run.mappings_per_target)
    /\ pending' = Tail(pending)
    /\ pc' = IF Tail(pending) = <<>> THEN "idle" ELSE "configured"
    /\ cfg' = IF Tail(pending) = <<>> THEN DefaultGlobals ELSE cfg
    /\ out_files' = out_files \cup main_files(run.source, Tail(pending) = <<>>)
    /\ UNCHANGED <<Concept, TranslationCache, synonyms, fzSeed, trSeed, argv, runs, prev,
                   run, classify, icd_cache, tree, sem>>

(***************************************************************************)
(* The database and files a run starts from.                               *)
(***************************************************************************)
Corpus ==
    [u \in CodeSystem |->
        CASE u = NAMASTE_CS["NAMASTE-Ayurveda"] ->
                << [code |-> "A1", display |-> <<"Vata", "dosha", "vikara">>, definition |-> <<>>],
                   [code |-> "A2", display |-> <<"pitta", "jvara">>, definition |-> <<"kapha">>] >>
          [] u = NAMASTE_CS["NAMASTE-Siddha"] ->
                << [code |-> "S1", display |-> <<"kapha", "dosha">>, definition |-> <<>>] >>
          [] u = TM2_URL ->
                << [code |-> "TM1", display |-> <<"Vata", "dosha", "disorder">>, definition |-> <<>>],
                   [code |-> "TM9", display |-> <<"kapha", "dosha", "disorder">>, definition |-> <<>>] >>
          [] u = ICD_BIOMED_URL ->
                << [code |-> "BA00", display |-> <<"vata", "pitta", "kapha", "jvara">>, definition |-> <<>>] >>
          [] OTHER -> <<>>]

\* The curated overrides: none, or the Ayurveda file with one entry.
SynonymChoices ==
    {<<>>,
     [n \in {"NAMASTE-Ayurveda"} |->
        << <<<<"Vata", "Dosha", "vikara">>, <<"Vata", "dosha", "disorder">>>> >>]}

\* ---- build_icd_alias_index and its on-disk cache -------------------------------
\* Bounds of the directories and cache artifacts the call is checked over.
MaxIcdFiles == 2
MaxMtime == 2

\* A directory listing: files in name order, each one of the ICD documents with a
\* modification time.
IcdDirs ==
    {d \in UNION {[1..n -> [doc : 1..Len(IcdDocs), mtime : 1..MaxMtime]] : n \in 0..MaxIcdFiles} :
        \A i \in 1..(Len(d) - 1) : d[i].doc < d[i + 1].doc}

DocsOf(files) == [i \in 1..Len(files) |-> IcdDocs[files[i].doc]]

RECURSIVE latest_mtime_of(_, _)
\* The loop over iterate_icd_json_files(): the largest st_mtime, from 0.0.
latest_mtime_of(files, latest_mtime) ==
    IF files = <<>> THEN latest_mtime
    ELSE latest_mtime_of(Tail(files),
                         IF Head(files).mtime > latest_mtime THEN Head(files).mtime
                         ELSE latest_mtime)

\* "Determine cache freshness (based on latest mtime and file count)".
icd_fingerprint(files) ==
    [latest_mtime |-> latest_mtime_of(files, 0), file_count |-> Len(files)]

\* The parts of icd_alias_index.json the call looks at.  kind: "absent" (no file),
\* "unreadable" (open or json.load raises), "not-object" (JSON that is no object),
\* "object".  meta.kind: "missing" (no "_meta" key), "bad" (values float()/int()
\* reject, or no object), "ok".  index.kind: "missing" (no "index" key), "not-dict",
\* "bad-values" (a dict with a value list() rejects), "dict".
NoMeta == [kind |-> "missing", latest_mtime |-> 0, file_count |-> 0]
BadMeta == [kind |-> "bad", latest_mtime |-> 0, file_count |-> 0]
NoIndex == [kind |-> "missing", value |-> <<>>]
AbsentArtifact == [kind |-> "absent", meta |-> NoMeta, index |-> NoIndex]
WrittenArtifact(fp, index) ==
    [kind |-> "object",
     meta |-> [kind |-> "ok", latest_mtime |-> fp.latest_mtime, file_count |-> fp.file_count],
     index |-> [kind |-> "dict", value |-> index]]

CacheMetas ==
    {NoMeta, BadMeta}
    \cup {[kind |-> "ok", latest_mtime |-> m, file_count |-> c] :
            m \in 0..MaxMtime, c \in 0..MaxIcdFiles}
CacheIndexes ==
    {NoIndex, [kind |-> "not-dict", value |-> <<>>], [kind |-> "bad-values", value |-> <<>>]}
    \cup {[kind |-> "dict", value |-> FreshIndex(DocsOf(d))] :
            d \in {e \in IcdDirs : \A i \in 1..Len(e) : e[i].mtime = 1}}
CacheArtifacts ==
    {AbsentArtifact,
     [kind |-> "unreadable", meta |-> NoMeta, index |-> NoIndex],
     [kind |-> "not-object", meta |-> NoMeta, index |-> NoIndex]}
    \cup [kind : {"object"}, meta : CacheMetas, index : CacheIndexes]

\* Mutation of cache_is_fresh: the file count is not compared.
cache_is_fresh_mtime_only(artifact, fp) ==
    /\ artifact.kind = "object"
    /\ artifact.meta.kind # "bad"
    /\ artifact.meta.latest_mtime = fp.latest_mtime
    /\ artifact.index.kind = "dict"

\* The try block of the cache read: TRUE when it returns the cached index.  Every
\* exception inside it (open, json.load, payload.get on a non-object, float(), int(),
\* list(v)) is caught and falls through to the fresh build.  meta.get(..., 0.0) and
\* meta.get(..., 0) read a missing "_meta" as the fingerprint (0.0, 0).
cache_is_fresh(artifact, fp) ==
    /\ artifact.kind = "object"
    /\ artifact.meta.kind # "bad"
    /\ artifact.meta.latest_mtime = fp.latest_mtime
    /\ artifact.meta.file_count = fp.file_count
    /\ artifact.index.kind = "dict"

\* build_icd_alias_index() over a directory and a cache artifact: what it returns,
\* whether it took the fresh build, and the artifact it leaves on disk.
build_icd_alias_index_over(files, artifact) ==
    LET fp == icd_fingerprint(files) IN
    IF cache_is_fresh(artifact, fp)
    THEN [returned |-> artifact.index.value, rebuilt |-> FALSE, artifact |-> artifact]
    ELSE [returned |-> FreshIndex(DocsOf(files)), rebuilt |-> TRUE,
          artifact |-> WrittenArtifact(fp, FreshIndex(DocsOf(files)))]

\* None, and the api/semantic.py module as imported: nothing loaded, no caller.
NoObject == [id |-> 0, complete |-> FALSE]
NoSemantic ==
    [codes |-> NoObject, vectors |-> NoObject, model |-> NoObject, lock |-> 0,
     artifact |-> FALSE, library |-> FALSE, loads |-> 0, constructs |-> 0, calls |-> 0,
     returned |-> {}, th |-> <<>>]

\* No insert_icd11_tree call under way.
NoTree == [docs |-> <<>>, q |-> <<>>, seen |-> {}, loaded |-> <<>>, inserted |-> <<>>,
           done |-> FALSE]

\* No direct build_icd_alias_index call under way.
NoIcdCache ==
    [files |-> <<>>, artifact |-> AbsentArtifact, before |-> AbsentArtifact,
     returned |-> <<>>, rebuilt |-> FALSE, called |-> FALSE]

NoClassification == [nam_text |-> <<>>, icd_primary |-> <<>>, best_score |-> 0, result |-> "unset"]

Init ==
    /\ pc = "idle"
    /\ cfg = DefaultGlobals
    /\ Concept \in {Corpus, EmptyDb}
    /\ TranslationCache = {}
    /\ ConceptMap = <<>>
    /\ synonyms \in SynonymChoices
    /\ fzSeed \in 0..(NumFuzzSeeds - 1)
    /\ trSeed \in 0..(NumTranslatorSeeds - 1)
    \* nothing matches or translates against an empty database: one such start
    /\ Concept = EmptyDb => synonyms = <<>> /\ fzSeed = 0 /\ trSeed = 0
    /\ argv = NoArgs
    /\ runs = 0
    /\ prev = [argv |-> NoArgs, rows |-> 0, run |-> EmptyRun]
    /\ pending = <<>>
    /\ run = EmptyRun
    /\ classify = NoClassification
    /\ icd_cache = NoIcdCache
    /\ out_files = {}
    /\ tree = NoTree
    /\ sem = NoSemantic

Next ==
    \/ \E args \in AllArgs : main_parse_args(args)
    \/ main_map_system
    \/ main_persist

Spec == Init /\ [][Next]_vars

(***************************************************************************)
(* decide_relationship called directly: the inputs are drawn at the start, *)
(* the call stores its result.                                             *)
(***************************************************************************)
MaxTokens == 4

ClassifyWords == <<"vata", "dosha", "pitta", "kapha">>

\* Word lists of up to MaxTokens content words, repeated words included, and three
\* texts whose normalisation, order or stopwords matter.
ClassifyTexts ==
    {[i \in 1..Len(f) |-> ClassifyWords[f[i]]] :
        f \in {g \in UNION {[1..n -> 1..Len(ClassifyWords)] : n \in 0..MaxTokens} :
                  \A i \in 1..(Len(g) - 1) : g[i] <= g[i + 1]}}
    \cup {<<"Vata", "dosha">>, <<"dosha", "vata">>, <<"vata", "of", "dosha", "disorder">>}

ClassifyScores == {69999, 70000, 87999, 88000, 89000, 89999, 90000, 95999, 96000}

InitClassify ==
    /\ pc = "idle"
    /\ cfg = DefaultGlobals
    /\ Concept = Corpus
    /\ TranslationCache = {}
    /\ ConceptMap = <<>>
    /\ synonyms = <<>>
    /\ fzSeed = 0
    /\ trSeed = 0
    /\ argv = NoArgs
    /\ runs = 0
    /\ prev = [argv |-> NoArgs, rows |-> 0, run |-> EmptyRun]
    /\ pending = <<>>
    /\ run = EmptyRun
    /\ classify \in {[nam_text |-> a, icd_primary |-> b, best_score |-> sc, result |-> "unset"] :
                        a \in ClassifyTexts, b \in ClassifyTexts, sc \in ClassifyScores}
    /\ icd_cache = NoIcdCache
    /\ out_files = {}
    /\ tree = NoTree
    /\ sem = NoSemantic

classify_call ==
    /\ classify.result = "unset"
    /\ classify' = [classify EXCEPT !.result =
                        decide_relationship(classify.nam_text, classify.icd_primary,
                                            classify.best_score)]
    /\ UNCHANGED <<pc, cfg, Concept, TranslationCache, ConceptMap, synonyms, fzSeed, trSeed,
                   argv, runs, prev, pending, run, icd_cache, out_files, tree, sem>>

NextClassify == classify_call

SpecClassify == InitClassify /\ [][NextClassify]_vars

(***************************************************************************)
(* map_system called directly (the module imported, its globals set by the *)
(* caller): NAMASTE-Ayurveda is mapped under the globals drawn at the      *)
(* start; the caller may then switch the embeddings off and map again.     *)
(***************************************************************************)
BatchSizeChoices == {1, BATCH_SIZE}

EmbedEnvChoices == {"ok", "no-numpy", "no-artifact", "no-model", "no-query"}

\* The globals of a call: translation on; the batch size matters only in batch
\* mode and the embedding environment only with embeddings enabled.
CallGlobals ==
    {g \in {[DefaultGlobals EXCEPT !.ACCEPT_SCORE_THRESHOLD = 65000, !.BATCH_TRANSLATE = bt,
                                   !.BATCH_SIZE = bs, !.FAST_MODE = fm,
                                   !.USE_EMBEDDINGS = ue, !.embed_env = ee] :
                bt \in BOOLEAN, bs \in BatchSizeChoices, fm \in BOOLEAN, ue \in BOOLEAN,
                ee \in EmbedEnvChoices} :
        /\ g.BATCH_TRANSLATE \/ g.BATCH_SIZE = BATCH_SIZE
        /\ g.USE_EMBEDDINGS \/ g.embed_env = "no-artifact"}

\* The Concept table with the rows of every code system in the opposite order.
ReversedCorpus ==
    [u \in CodeSystem |-> [i \in 1..Len(Corpus[u]) |-> Corpus[u][Len(Corpus[u]) + 1 - i]]]

InitCall ==
    /\ pc = "library"
    /\ cfg \in CallGlobals
    /\ Concept \in {Corpus, ReversedCorpus}
    /\ TranslationCache = {}
    /\ ConceptMap = <<>>
    /\ synonyms = <<>>
    /\ fzSeed \in 0..(NumFuzzSeeds - 1)
    /\ trSeed \in 0..(NumTranslatorSeeds - 1)
    /\ argv = NoArgs
    /\ runs = 0
    /\ prev = [argv |-> NoArgs, rows |-> 0, run |-> EmptyRun]
    /\ pending = <<"NAMASTE-Ayurveda">>
    /\ run = EmptyRun
    /\ classify = NoClassification
    /\ icd_cache = NoIcdCache
    /\ out_files = {}
    /\ tree = NoTree
    /\ sem = NoSemantic

\* map_system(conn, source_name, source_url, icd_targets), not yet called under
\* the present globals.
map_system_call ==
    /\ pc = "library"
    /\ run.source = "" \/ run.globals # cfg
    /\ run' = map_system(Head(pending), NAMASTE_CS[Head(pending)])
    /\ TranslationCache' = run'.cache
    /\ prev' = [prev EXCEPT !.run = run]
    /\ UNCHANGED <<pc, cfg, Concept, ConceptMap, synonyms, fzSeed, trSeed, argv, runs,
                   pending, classify, icd_cache, out_files, tree, sem>>

\* The caller sets USE_EMBEDDINGS = False after a call.
disable_embeddings ==
    /\ pc = "library"
    /\ run.source # "" /\ run.globals = cfg
    /\ cfg.USE_EMBEDDINGS
    /\ cfg' = [cfg EXCEPT !.USE_EMBEDDINGS = FALSE]
    /\ UNCHANGED <<pc, Concept, TranslationCache, ConceptMap, synonyms, fzSeed, trSeed, argv,
                   runs, prev, pending, run, classify, icd_cache, out_files, tree, sem>>

NextCall == map_system_call \/ disable_embeddings

SpecCall == InitCall /\ [][NextCall]_vars

(***************************************************************************)
(* Properties.                                                             *)
(***************************************************************************)
Decisions == {run.decisions[i] : i \in 1..Len(run.decisions)}

MappedDecisions == {d \in Decisions : d.outcome = "mapped"}

\* Decisions that got as far as a top candidate for the target
RankedDecisions == {d \in Decisions : d.outcome # "no-candidate"}

RelationshipTypes ==
    {"equivalent", "source-is-narrower-than-target", "source-is-broader-than-target",
     "related-to"}

\* The records map_system returned for target t are those of the mapped decisions.
EmittedFor(t) == Range(run.mappings_per_target[t])

\* C1: after a run of map_system every mapping emitted for target system T has a
\* target_code that is a code of T's concept store.
C1_TargetCodeInStore ==
    \A t \in Range(icd_targets) : \A m \in EmittedFor(t) : m.target_code \in target_codes(t)

\* C1 witness: a mapping was emitted for a concept whose best-ranked candidate
\* overall is XX99, a code of the alias index that no target store holds.
C1_Witness_AbsentCodeOutranked ==
    \E d \in MappedDecisions :
        /\ d.first_code = "XX99"
        /\ d.first_code \notin target_codes(d.target)
        /\ d.mapping \in EmittedFor(d.target)

\* C2: every emitted mapping has one of the four relationship types, and the score
\* of its top candidate is at least the acceptance threshold in force for the run.
C2_TypeAndAcceptance ==
    /\ \A t \in Range(icd_targets) : \A m \in EmittedFor(t) :
            /\ m.mapping_type \in RelationshipTypes
            /\ \E d \in MappedDecisions : d.target = t /\ d.mapping = m
    /\ \A d \in MappedDecisions :
            /\ d.mapping.mapping_type \in RelationshipTypes
            /\ d.top.score >= run.th.accept_min

\* C2 witness: under --accept-score 65 a mapping is emitted whose score is below
\* the default threshold but at least the one in force.
C2_Witness_LoweredThreshold ==
    \E d \in MappedDecisions :
        /\ run.th.accept_min = 65000
        /\ d.top.score < ACCEPT_SCORE_THRESHOLD
        /\ d.mapping \in EmittedFor(d.target)

\* The reference procedure over token sets, first match wins.
ReferenceClassify(nam_text, icd_primary, score) ==
    LET src == Range(_tokens(nam_text))
        tgt == Range(_tokens(icd_primary))
        overlap == _token_overlap(_tokens(nam_text), _tokens(icd_primary))
        jac == _jaccard(_tokens(nam_text), _tokens(icd_primary))
    IN  IF \/ score >= 96000
           \/ _normalize_text(nam_text) = _normalize_text(icd_primary)
           \/ RatioGeq(jac, 9, 10)
        THEN "equivalent"
        ELSE IF score >= 90000 /\ tgt \subseteq src /\ tgt # src /\ RatioGeq(overlap, 8, 10)
        THEN "source-is-narrower-than-target"
        ELSE IF score >= 88000 /\ src \subseteq tgt /\ src # tgt /\ RatioGeq(overlap, 7, 10)
        THEN "source-is-broader-than-target"
        ELSE IF score >= 70000
        THEN "related-to"
        ELSE NoRel

\* C3 as stated: decide_relationship returns what the reference procedure over
\* token sets returns, for every token list, lists with repeated tokens included.
C3_EqualsReference ==
    classify.result # "unset" =>
        classify.result = ReferenceClassify(classify.nam_text, classify.icd_primary,
                                            classify.best_score)

\* The first label the alias index holds for a code
PrimaryLabel(code) == aliases_get(build_icd_alias_index, code, <<>>)[1]

ScoreCutoffMet(mapping_type, score) ==
    /\ mapping_type = "source-is-narrower-than-target" => score >= 90000
    /\ mapping_type = "source-is-broader-than-target" => score >= 88000
    /\ mapping_type = "related-to" => score >= 70000

\* C4 as stated: the score of every emitted mapping meets the score cutoff of its
\* relationship type, equivalent >= 96 included.
C4_ScoreCutoffOfType ==
    \A d \in MappedDecisions :
        /\ d.mapping.mapping_type = "equivalent" => d.top.score >= 96000
        /\ ScoreCutoffMet(d.mapping.mapping_type, d.top.score)

\* C4 amended: narrower has score >= 90, broader >= 88, related >= 70; equivalent
\* has score >= 96 or equal normalised texts (translated text, primary label of
\* the target code) or token Jaccard >= 0.9.
C4_ScoreCutoffOrTextRule ==
    \A d \in MappedDecisions :
        LET m == d.mapping
            label == PrimaryLabel(m.target_code)
        IN  /\ m \in EmittedFor(d.target)
            /\ ScoreCutoffMet(m.mapping_type, d.top.score)
            /\ m.mapping_type = "equivalent" =>
                    \/ d.top.score >= 96000
                    \/ _normalize_text(m.translated_text) = _normalize_text(label)
                    \/ RatioGeq(_jaccard(_tokens(m.translated_text), _tokens(label)), 9, 10)

\* C4 witness: an equivalent mapping emitted with a score below 96, its token sets
\* being equal while its texts differ.
C4_Witness_EquivalentBelow96 ==
    \E d \in MappedDecisions :
        /\ d.mapping.mapping_type = "equivalent"
        /\ d.top.score < 96000
        /\ _normalize_text(d.mapping.translated_text) #
                _normalize_text(PrimaryLabel(d.mapping.target_code))
        /\ d.mapping \in EmittedFor(d.target)

\* The case of C5: score from 70 up to below 88, gate passed, no equivalence
\* condition and no subset relation between the token sets.
PlainRelatedCase(d) ==
    LET src == Range(_tokens(d.rel_text))
        tgt == Range(_tokens(d.icd_primary))
    IN  /\ 70000 <= d.top.score /\ d.top.score < 88000
        /\ d.outcome # "gate-rejected"
        /\ _normalize_text(d.rel_text) # _normalize_text(d.icd_primary)
        /\ RatioLt(_jaccard(_tokens(d.rel_text), _tokens(d.icd_primary)), 9, 10)
        /\ ~(src \subseteq tgt) /\ ~(tgt \subseteq src)

EmitsRelated(d) ==
    /\ d.outcome = "mapped"
    /\ d.mapping \in EmittedFor(d.target)
    /\ d.mapping.mapping_type = "related-to"
    /\ d.mapping.confidence = Round2(d.top.score)

\* C5 as stated: in that case a mapping related-to is emitted with the score as
\* its confidence.
C5_RelatedEmitted ==
    \A d \in RankedDecisions : PlainRelatedCase(d) => EmitsRelated(d)

\* C5 amended: in that case, when the score is also at least the acceptance
\* threshold in force (default 75), a mapping related-to is emitted whose
\* confidence is the score rounded to two decimals.
C5_RelatedEmittedIfAccepted ==
    \A d \in RankedDecisions :
        PlainRelatedCase(d) /\ d.top.score >= run.th.accept_min => EmitsRelated(d)

\* C5 witness: under --accept-score 65 the score 73.753 is emitted as related-to
\* with confidence 73.75.
C5_Witness_Score73Accepted ==
    \E d \in RankedDecisions :
        /\ PlainRelatedCase(d)
        /\ d.top.score = 73753
        /\ run.th.accept_min = 65000
        /\ EmitsRelated(d)
        /\ d.mapping.confidence = 73750

InReviewBand(d) == 50000 <= d.top.score /\ d.top.score <= 85000

Descending(cands) == \A i \in 1..(Len(cands) - 1) : cands[i].score >= cands[i + 1].score

\* No mapping for the decision's concept and target, and a review item of at most
\* five candidates in descending score order.
ReviewedNotMapped(d) ==
    /\ d.outcome = "review"
    /\ ~\E m \in EmittedFor(d.target) : m.source_code = d.source_code
    /\ d.review \in Range(run.review_rows)
    /\ Len(d.review.candidates) <= 5
    /\ Descending(d.review.candidates)

\* C6 as stated: a top score inside the review band 50-85 gives no mapping and a
\* review item of at most five candidates in descending order.
C6_BandGivesReview ==
    \A d \in RankedDecisions : InReviewBand(d) => ReviewedNotMapped(d)

\* C6 amended: a top score inside the review band that passed the translation gate
\* and is below the acceptance threshold in force gives no mapping and a review
\* item of at most five candidates in descending order; the item is written to
\* the review CSV exactly when --emit-review-csv is given.
C6_RejectedInBandGivesReview ==
    /\ \A d \in RankedDecisions :
            /\ InReviewBand(d)
            /\ d.outcome # "gate-rejected"
            /\ d.top.score < run.th.accept_min
            => /\ ReviewedNotMapped(d)
               /\ run.emit_review_csv =>
                    \E r \in Range(run.review_csv) :
                        /\ r.source_code = d.source_code
                        /\ r.final_score = Round2(d.top.score)
                        /\ Descending(SelectSeq(r.flat, LAMBDA c : c.code # ""))
    /\ ~run.emit_review_csv => run.review_csv = <<>>

\* C6 witness: a score of 60 under the default threshold: review item with more
\* than one candidate, no mapping, the CSV written.
C6_Witness_Score60Reviewed ==
    \E d \in RankedDecisions :
        /\ d.top.score = 60000
        /\ run.th.accept_min = ACCEPT_SCORE_THRESHOLD
        /\ ReviewedNotMapped(d)
        /\ Len(d.review.candidates) > 1
        /\ run.emit_review_csv /\ run.review_csv # <<>>

\* C7: a process run again with the same command line over the unchanged corpus
\* leaves as many ConceptMap rows as the run before it left.
C7_RerunKeepsRowCount ==
    pc = "idle" /\ runs >= 2 /\ argv = prev.argv => Len(ConceptMap) = prev.rows

\* C7 witness: the second of two equal runs emitted mappings again and the table
\* holds rows.
C7_Witness_SecondRunEmitted ==
    /\ pc = "idle" /\ runs >= 2 /\ argv = prev.argv
    /\ \E t \in Range(icd_targets) : run.mappings_per_target[t] # <<>>
    /\ Len(ConceptMap) > 0
    /\ Len(ConceptMap) = prev.rows

KeysUnique(table) ==
    \A i, j \in 1..Len(table) : SameKey(table[i], table[j]) => i = j

StoredRowsKept ==
    /\ Len(ConceptMap') >= Len(ConceptMap)
    /\ \A i \in 1..Len(ConceptMap) : ConceptMap'[i] = ConceptMap[i]

\* C8: the ConceptMap table never holds two rows with the same four-tuple, and no
\* step changes or removes a stored row: an insert whose four-tuple is present is
\* a no-op.
C8_OneRowPerKeyRowsKept == [](KeysUnique(ConceptMap)) /\ [][StoredRowsKept]_vars

\* C8 witness: a run has been persisted that emitted a mapping whose four-tuple
\* was stored already with another confidence; the stored row is as before.
C8_Witness_DuplicateIgnored ==
    /\ pc = "idle"
    /\ \E t \in Range(icd_targets) : \E m \in EmittedFor(t) : \E i \in 1..Len(ConceptMap) :
            /\ ConceptMap[i].source_codesystem = NAMASTE_CS[run.source]
            /\ ConceptMap[i].source_code = m.source_code
            /\ ConceptMap[i].target_codesystem = t
            /\ ConceptMap[i].target_code = m.target_code
            /\ ConceptMap[i].confidence # m.confidence

\* C9 as stated: with translation enabled, no external translate call is made for
\* a concept that had a TranslationCache record when map_system started.
C9_CachedNeverTranslated ==
    \A c \in run.calls :
        ~\E r \in run.cache_before :
            r.codesystem = NAMASTE_CS[run.source] /\ r.code = c.code

\* C10 as stated: every mapping emitted for a concept whose normalised source text
\* is a key of the system's synonym overrides has the override as translated_text
\* and backtranslation_similarity 100.
C10_OverrideInEmittedRecord ==
    \A t \in Range(icd_targets) : \A m \in EmittedFor(t) :
        LET syn == _load_system_synonyms(run.source)
            src == load_concepts(NAMASTE_CS[run.source])
            nam == src[CHOOSE i \in 1..Len(src) : src[i].code = m.source_code]
            key == _normalize_text(SrcJoin(nam))
        IN  key \in DOMAIN syn =>
                /\ m.translated_text = syn[key]
                /\ m.backtranslation_similarity = 100000

(***************************************************************************)
(* Batch mode against single-item mode.                                    *)
(***************************************************************************)
\* The second process repeats the first one's command line with --batch-translate flipped.
ModesDiffer ==
    /\ runs = 2
    /\ prev.argv # NoArgs
    /\ argv.batch_translate # prev.argv.batch_translate

SameOutputs(r, q) ==
    /\ \A t \in Range(icd_targets) :
            Range(r.mappings_per_target[t]) = Range(q.mappings_per_target[t])
    /\ r.review_rows = q.review_rows
    /\ r.unmapped = q.unmapped

\* C11: for the same source system, overrides, thresholds and translator, the
\* map_system call of a batch-mode process and that of a single-item process
\* return the same set of mappings, the same review items and the same
\* unmapped list.
C11_BatchEqualsSingle ==
    (ModesDiffer /\ pc = "mapped" /\ ~cfg.DRY_RUN_TRANSLATIONS /\ run.source = prev.run.source)
        => SameOutputs(run, prev.run)


(***************************************************************************)
(* A translation that fails.                                               *)
(***************************************************************************)
\* The forward translation of nam's text fails: the call raises or returns no text.
TranslationFails(nam, source_name) ==
    LET tag == NAMASTE_LANG_TAG_get(source_name)
    IN  /\ SrcJoin(nam) # <<>>
        /\ \/ translator_raises(SrcJoin(nam), tag, "eng_Latn")
           \/ translator_translate(SrcJoin(nam), tag, "eng_Latn") = <<>>

\* The run asked the translator for nam's text: always in single-item mode, in batch
\* mode unless an override or a cached record supplied the text.
TranslationAttempted(nam, source_name) ==
    run.use_batch =>
        /\ _normalize_text(SrcJoin(nam)) \notin DOMAIN _load_system_synonyms(source_name)
        /\ ~\E r \in run.cache_before :
                r.codesystem = NAMASTE_CS[source_name] /\ r.code = nam.code /\ r.en_joined # <<>>

DecisionsOf(code) == {d \in Decisions : d.source_code = code}

\* C12: when the translation of a source concept fails in a mapping run with
\* translation, map_system still returns, with a decision for every concept of
\* the system, and the failing concept is matched as its source text with
\* back-translation similarity 0.
C12_FailureIsolated ==
    (run.source # "" /\ run.translate /\ ~run.dry_run) =>
        LET src     == Range(load_concepts(NAMASTE_CS[run.source]))
            failing == {nam \in src : /\ TranslationAttempted(nam, run.source)
                                      /\ TranslationFails(nam, run.source)}
        IN  failing # {} =>
                /\ ~run.aborted
                /\ \A nam \in src : DecisionsOf(nam.code) # {}
                /\ \A nam \in failing : \A d \in DecisionsOf(nam.code) :
                        "top" \in DOMAIN d =>
                            /\ d.top.meta.back_sim = 0
                            /\ d.top.meta.en_text = SrcJoin(nam)

(***************************************************************************)
(* The unmapped list.                                                      *)
(***************************************************************************)
MappingRunReturned == run.source # "" /\ ~run.dry_run /\ ~run.aborted

HasMapping(code) ==
    \E t \in Range(icd_targets) : \E m \in EmittedFor(t) : m.source_code = code

\* C13: in a mapping run a source concept's code is in the returned unmapped list
\* exactly when no mapping was emitted for it in any target system (so every
\* concept is unmapped or mapped, never both).
C13_UnmappedIffNoMapping ==
    MappingRunReturned =>
        \A nam \in Range(load_concepts(NAMASTE_CS[run.source])) :
            (nam.code \in Range(run.unmapped)) <=> ~HasMapping(nam.code)

\* A run in which one concept is mapped in one target system only and another
\* concept is unmapped.
C13_Witness_OneTargetOnly ==
    /\ MappingRunReturned
    /\ run.unmapped # <<>>
    /\ \E nam \in Range(load_concepts(NAMASTE_CS[run.source])) :
            /\ HasMapping(nam.code)
            /\ \E d \in DecisionsOf(nam.code) : d.outcome # "mapped"

(***************************************************************************)
(* One mapping per concept and target, for the top candidate.              *)
(***************************************************************************)
\* The candidates of d's target among the ranked matches, in rank order.
RankedInTarget(d) == SelectSeq(d.ranked, LAMBDA c : c.code \in target_codes(d.target))

MappingsFor(code, t) == SelectSeq(run.mappings_per_target[t], LAMBDA m : m.source_code = code)

\* C14: per source concept and target system map_system emits at most one mapping;
\* it is for the first of the target's candidates in rank order, none of which
\* scores higher; and when that candidate is gated, below the acceptance
\* threshold or classified none, no mapping is emitted for the target at all.
C14_OnlyTopCandidate ==
    MappingRunReturned =>
        \A d \in Decisions :
            LET ms   == MappingsFor(d.source_code, d.target)
                here == RankedInTarget(d)
            IN  /\ Len(ms) <= 1
                /\ Len(ms) = 1 =>
                        /\ here # <<>>
                        /\ ms[1].target_code = here[1].code
                        /\ ms[1].confidence = Round2(here[1].score)
                        /\ \A i \in 1..Len(here) : here[i].score <= here[1].score
                /\ d.outcome \in {"gate-rejected", "review", "rejected", "no-relationship"}
                        => ms = <<>>

\* The top candidate of a target is refused although a lower-ranked candidate of
\* the same target is at or above the acceptance threshold.
C14_Witness_LowerRankedPassedOver ==
    /\ MappingRunReturned
    /\ \E d \in Decisions :
            /\ d.outcome \in {"gate-rejected", "no-relationship"}
            /\ Len(RankedInTarget(d)) >= 2
            /\ RankedInTarget(d)[2].score >= run.th.accept_min
            /\ RankedInTarget(d)[2].code # RankedInTarget(d)[1].code

(***************************************************************************)
(* Per-system thresholds.                                                  *)
(***************************************************************************)
\* C15: with --use-per-system-thresholds map_system applies the source system's
\* own back-translation minimum and acceptance threshold (Ayurveda 60/65, Siddha
\* and Unani 70/75); without the option it applies the global values.
C15_PerSystemThresholdsApplied ==
    pc = "mapped" =>
        run.th = IF argv.use_per_system_thresholds
                 THEN [back_min   |-> PER_SYSTEM_BACKTRANS_get(run.source, cfg.BACKTRANS_MIN_SIM),
                       accept_min |-> PER_SYSTEM_ACCEPT_get(run.source, cfg.ACCEPT_SCORE_THRESHOLD)]
                 ELSE [back_min   |-> cfg.BACKTRANS_MIN_SIM,
                       accept_min |-> cfg.ACCEPT_SCORE_THRESHOLD]

(***************************************************************************)
(* The score of a candidate.                                               *)
(***************************************************************************)
\* 100 * (0.50 + 0.35 * lexicalScore / 100 + 0.15 * backSimilarity / 100)
ShortlistedScore(lexical, back_sim) == 50000 + (35 * lexical + 15 * back_sim) \div 100

\* C16: every candidate find_best_matches returned has, when a shortlist was
\* iterated, the score 100 * (0.50 + 0.35 * lexical/100 + 0.15 * backSim/100)
\* with backSim the back-translation similarity of the source concept's
\* translation (in batch mode the precomputed one), and otherwise its lexical score.
C16_CandidateScore ==
    \A d \in Decisions : \A i \in 1..Len(d.ranked) :
        d.ranked[i].score = IF d.ranked[i].shortlisted
                            THEN ShortlistedScore(d.ranked[i].lexical, d.ranked[i].back_sim)
                            ELSE d.ranked[i].lexical

(***************************************************************************)
(* Embeddings enabled but unavailable.                                     *)
(***************************************************************************)
\* The call before the last ran with embeddings enabled but unavailable, the last
\* one with the same globals and embeddings disabled.
RepeatedWithoutEmbeddings ==
    /\ prev.run.source # "" /\ run.source = prev.run.source
    /\ prev.run.globals.USE_EMBEDDINGS /\ prev.run.globals.embed_env # "ok"
    /\ run.globals = [prev.run.globals EXCEPT !.USE_EMBEDDINGS = FALSE]

\* C17: with embeddings enabled but numpy, the artifact, the model or the query
\* vector unavailable, the matching ends as it does with embeddings disabled:
\* the same candidates with the same scores (no shortlist, score = lexical
\* score), the same scan and the same decisions, and no error of its own.
C17_UnavailableAsDisabled ==
    RepeatedWithoutEmbeddings =>
        /\ prev.run.aborted = run.aborted
        /\ prev.run.decisions = run.decisions
        /\ \A i \in 1..Len(prev.run.decisions) :
                \A j \in 1..Len(prev.run.decisions[i].ranked) :
                    /\ ~prev.run.decisions[i].ranked[j].shortlisted
                    /\ prev.run.decisions[i].ranked[j].score
                            = prev.run.decisions[i].ranked[j].lexical

\* Embeddings were enabled without a query vector, candidates were scored and a
\* candidate was skipped by the prefilter; the call was repeated with embeddings off.
C17_Witness_NoQueryVectorFullScan ==
    /\ RepeatedWithoutEmbeddings
    /\ prev.run.globals.embed_env = "no-query"
    /\ \E i \in 1..Len(prev.run.decisions) :
            /\ prev.run.decisions[i].ranked # <<>>
            /\ \E k \in 1..Len(prev.run.decisions[i].scan) :
                    prev.run.decisions[i].scan[k].skipped

(***************************************************************************)
(* The prefilter of the full scan.                                         *)
(***************************************************************************)
Scans == UNION {Range(d.scan) : d \in Decisions}

\* C19: in the full scan, in normal and in fast mode, a candidate is skipped only
\* when its token overlap is below the mode's minimum (0.30, fast 0.50) and its
\* quick ratio is below the mode's bar (90, fast 92); a candidate whose quick
\* ratio reaches the bar is scored.
C19_SkippedOnlyBelowBoth ==
    \A e \in Scans :
        LET fast == run.globals.FAST_MODE
            bar  == IF fast THEN 92000 ELSE 90000
        IN  /\ e.skipped =>
                /\ (IF fast THEN RatioLt(e.tok_overlap, 5, 10)
                    ELSE RatioLt(e.tok_overlap, MIN_TOKEN_OVERLAP[1], MIN_TOKEN_OVERLAP[2]))
                /\ e.quick < bar
            /\ e.quick >= bar => ~e.skipped

(***************************************************************************)
(* Alignment of the batch translation.                                     *)
(***************************************************************************)
\* The forward translation of nam's own text and its round-trip similarity.
OwnTranslation(nam, source_name) ==
    LET tag  == NAMASTE_LANG_TAG_get(source_name)
        en   == translator_translate(SrcJoin(nam), tag, "eng_Latn")
        back == translator_translate(en, "eng_Latn", tag)
    IN  [en |-> en, sim |-> _text_similarity(SrcJoin(nam), back)]

\* The concepts a batch run queued for translation.
Queued ==
    IF run.source = "" \/ ~run.use_batch \/ run.dry_run \/ run.aborted THEN {}
    ELSE {nam \in Range(load_concepts(NAMASTE_CS[run.source])) :
            TranslationAttempted(nam, run.source)}

\* C20: in batch translation the English text and back-similarity recorded under
\* a queued concept's code are the forward translation and round-trip similarity
\* of that concept's own text, and its candidates carry that similarity, whatever
\* the batch size and the position of the concept in the list.
C20_RecordIsOwnTranslation ==
    \A nam \in Queued :
        LET own == OwnTranslation(nam, run.source)
        IN  /\ \E r \in run.cache :
                    /\ r.codesystem = NAMASTE_CS[run.source] /\ r.code = nam.code
                    /\ r.en_joined = own.en
                    /\ r.back_sim = own.sim
            /\ \A d \in DecisionsOf(nam.code) :
                    /\ \A i \in 1..Len(d.ranked) : d.ranked[i].back_sim = own.sim
                    /\ ("top" \in DOMAIN d /\ own.en # <<>>) => d.top.meta.en_text = own.en

\* Two concepts queued in the reversed order, translated one per chunk, with
\* different translations and similarities.
C20_Witness_OnePerChunkReversed ==
    /\ Concept = ReversedCorpus
    /\ run.globals.BATCH_SIZE = 1
    /\ \E a, b \in Queued :
            /\ a.code # b.code
            /\ OwnTranslation(a, run.source).en # OwnTranslation(b, run.source).en
            /\ OwnTranslation(a, run.source).sim # OwnTranslation(b, run.source).sim
            /\ DecisionsOf(a.code) # {}

\* ---- Direct calls of build_icd_alias_index ------------------------------------
InitAliasCache ==
    /\ pc = "library"
    /\ cfg = DefaultGlobals
    /\ Concept = Corpus
    /\ TranslationCache = {}
    /\ ConceptMap = <<>>
    /\ synonyms = <<>>
    /\ fzSeed = 0
    /\ trSeed = 0
    /\ argv = NoArgs
    /\ runs = 0
    /\ prev = [argv |-> NoArgs, rows |-> 0, run |-> EmptyRun]
    /\ pending = <<>>
    /\ run = EmptyRun
    /\ classify = NoClassification
    /\ icd_cache \in {[NoIcdCache EXCEPT !.files = d, !.artifact = a, !.before = a] :
                        d \in IcdDirs, a \in CacheArtifacts}
    /\ out_files = {}
    /\ tree = NoTree
    /\ sem = NoSemantic

\* One call of build_icd_alias_index(), cache read and cache save included.
build_icd_alias_index_call ==
    /\ ~icd_cache.called
    /\ LET r == build_icd_alias_index_over(icd_cache.files, icd_cache.artifact) IN
        icd_cache' = [icd_cache EXCEPT !.before = icd_cache.artifact,
                                       !.artifact = r.artifact,
                                       !.returned = r.returned,
                                       !.rebuilt = r.rebuilt,
                                       !.called = TRUE]
    /\ UNCHANGED <<pc, cfg, Concept, TranslationCache, ConceptMap, synonyms, fzSeed, trSeed,
                   argv, runs, prev, pending, run, classify, out_files, tree, sem>>

\* The directory after one file was removed, rewritten or added.
ChangedDirs(files) ==
    LET used == {files[i].doc : i \in 1..Len(files)}
        RemoveAt(i) == SubSeq(files, 1, i - 1) \o SubSeq(files, i + 1, Len(files))
        InsertFile(f) ==
            LET k == Cardinality({i \in 1..Len(files) : files[i].doc < f.doc}) IN
            SubSeq(files, 1, k) \o <<f>> \o SubSeq(files, k + 1, Len(files)) IN
    {RemoveAt(i) : i \in 1..Len(files)}
    \cup ({[files EXCEPT ![i].mtime = m] :
            i \in 1..Len(files), m \in 1..MaxMtime} \ {files})
    \cup {InsertFile([doc |-> k, mtime |-> m]) :
            k \in IF Len(files) < MaxIcdFiles THEN (1..Len(IcdDocs)) \ used ELSE {},
            m \in 1..MaxMtime}

\* A document under db/icd11 is removed, rewritten or added (step 2 run again)
\* before the next call.
icd_files_change ==
    /\ icd_cache.called
    /\ \E d \in ChangedDirs(icd_cache.files) :
        /\ icd_cache' = [NoIcdCache EXCEPT !.files = d, !.artifact = icd_cache.artifact,
                                           !.before = icd_cache.artifact]
    /\ UNCHANGED <<pc, cfg, Concept, TranslationCache, ConceptMap, synonyms, fzSeed, trSeed,
                   argv, runs, prev, pending, run, classify, out_files, tree, sem>>

NextAliasCache == build_icd_alias_index_call \/ icd_files_change

SpecAliasCache == InitAliasCache /\ [][NextAliasCache]_vars

\* ---- C18 ----------------------------------------------------------------------
\* The artifact can be opened and parsed.
CacheReadable(a) == a.kind \notin {"absent", "unreadable"}

\* A readable artifact that is no JSON object, or whose fingerprint values are no
\* numbers, or whose index is missing, no object, or holds values that are no lists.
CacheMalformed(a) ==
    \/ a.kind = "not-object"
    \/ a.kind = "object" /\ (a.meta.kind = "bad" \/ a.index.kind # "dict")

\* The fingerprint the artifact stores (an artifact without "_meta" stores none and
\* is read as file count 0, latest modification time 0.0).
StoredFingerprint(a) ==
    [latest_mtime |-> a.meta.latest_mtime, file_count |-> a.meta.file_count]

EmptyStoreSystems ==
    IF runs = 0 THEN {}
    ELSE {n \in Range(IterItems(argv)) : load_concepts(NAMASTE_CS[n]) = <<>>}

\* C21: a process that finds a required resource entirely missing writes nothing:
\* with no code system in the database it writes no file and no ConceptMap row, and
\* for a source system whose concept store is empty it writes no concept map, no
\* CSV, no unmapped list, and no report.
C21_MissingResourceWritesNothing ==
    /\ load_codesystem_ids = {} => out_files = {} /\ ConceptMap = <<>>
    /\ \A f \in out_files :
        /\ f.system \notin EmptyStoreSystems
        /\ f.kind = "report" => EmptyStoreSystems = {}

(***************************************************************************)
(* _composite_score called directly on two normalised strings.             *)
(***************************************************************************)
\* Normalised strings of up to two words, the empty string among them.
ScoreTexts == {_normalize_text(t) : t \in {u \in ClassifyTexts : Len(u) <= 2}}

InitScore ==
    /\ pc = "library"
    /\ cfg = DefaultGlobals
    /\ Concept = Corpus
    /\ TranslationCache = {}
    /\ ConceptMap = <<>>
    /\ synonyms = <<>>
    /\ fzSeed \in 0..(NumFuzzSeeds - 1)
    /\ trSeed = 0
    /\ argv = NoArgs
    /\ runs = 0
    /\ prev = [argv |-> NoArgs, rows |-> 0, run |-> EmptyRun]
    /\ pending = <<>>
    /\ run = EmptyRun
    /\ classify \in {[a |-> a, b |-> b, called |-> FALSE, ab |-> 0, ba |-> 0, aa |-> 0] :
                        a \in ScoreTexts, b \in ScoreTexts}
    /\ icd_cache = NoIcdCache
    /\ out_files = {}
    /\ tree = NoTree
    /\ sem = NoSemantic

\* _composite_score(a, b), _composite_score(b, a) and _composite_score(a, a)
composite_score_call ==
    /\ ~classify.called
    /\ classify' = [classify EXCEPT !.called = TRUE,
                                    !.ab = _composite_score(classify.a, classify.b),
                                    !.ba = _composite_score(classify.b, classify.a),
                                    !.aa = _composite_score(classify.a, classify.a)]
    /\ UNCHANGED <<pc, cfg, Concept, TranslationCache, ConceptMap, synonyms, fzSeed, trSeed,
                   argv, runs, prev, pending, run, icd_cache, out_files, tree, sem>>

NextScore == composite_score_call

SpecScore == InitScore /\ [][NextScore]_vars

\* ---- C22 ----------------------------------------------------------------------
\* C22: for all normalised strings a and b the composite similarity is symmetric,
\* lies between 0 and 100, and scores a string against itself exactly 100.
C22_SymmetricReflexiveBounded ==
    classify.called =>
        /\ classify.ab = classify.ba
        /\ classify.aa = 100000
        /\ 0 <= classify.ab /\ classify.ab <= 100000

\* ---- C23 ----------------------------------------------------------------------
\* C23: a source concept whose top candidate for a target is rejected by the
\* translation gate while that candidate's score lies in the review band 50-85 has a
\* review item in what map_system produced.
C23_GateRejectedInBandReviewed ==
    \A d \in RankedDecisions :
        d.outcome = "gate-rejected" /\ InReviewBand(d) =>
            \E r \in Range(run.review_rows) : r.source_code = d.source_code

\* ---- C24 ----------------------------------------------------------------------
\* What a dry run leaves in the database: map_system returned empty mapping lists and
\* left the TranslationCache table as it found it, and the ConceptMap table has the
\* rows it had when the process started.
DryRunLeavesTables ==
    /\ run.source # "" /\ run.dry_run =>
            /\ \A t \in Range(icd_targets) : run.mappings_per_target[t] = <<>>
            /\ run.cache = run.cache_before
            /\ TranslationCache = run.cache
    /\ runs > 0 /\ argv.dry_run_translations => Len(ConceptMap) = prev.rows

\* The last map_system call was made by the process whose command line argv is.
RunOfThisProcess ==
    /\ runs > 0 /\ run.source # ""
    /\ pc = "configured" => Len(pending) < Len(IterItems(argv))

C25_EmbeddingsFlagShortlists ==
    RunOfThisProcess /\ argv.use_embeddings /\ run.globals.embed_env = "ok" =>
        \A d \in Decisions :
            /\ d.scan = <<>>
            /\ \A i \in 1..Len(d.ranked) : d.ranked[i].shortlisted

(***************************************************************************)
(* step3_store_db.insert_icd11_tree: the walk over the cached ICD-11       *)
(* documents, one loop iteration per step.                                 *)
(***************************************************************************)
MaxIcdNodes == 2

\* Child references: the linearization URL of every node, and for the last node a
\* second URL with the same last path segment (as .../mms/<id> and .../entity/<id>).
TreeUrls ==
    {[ns |-> "mms", id |-> i] : i \in 1..MaxIcdNodes}
    \cup {[ns |-> "entity", id |-> MaxIcdNodes]}

root_url == [ns |-> "mms", id |-> 1]

\* _file_from_url: the file is named by the last path segment of the URL.
_file_from_url(u) == u.id

\* Child lists of up to two references, repeated references included.
ChildLists ==
    {<<>>} \cup {<<u>> : u \in TreeUrls} \cup {<<u, v>> : u \in TreeUrls, v \in TreeUrls}

\* A cached file: missing, not parseable, or a document with or without a code.
TreeDocs ==
    {[kind |-> "missing", code |-> "", child |-> <<>>],
     [kind |-> "unreadable", code |-> "", child |-> <<>>]}
    \cup {[kind |-> "document", code |-> c, child |-> ch] : c \in {"", "code"}, ch \in ChildLists}

\* Mutation of insert_icd11_tree_iteration: the visited set is not consulted.
insert_icd11_tree_iteration_unseen(t) ==
    LET url  == Head(t.q)
        data == t.docs[_file_from_url(url)]
    IN  IF data.kind # "document" THEN [t EXCEPT !.q = Tail(t.q), !.seen = @ \cup {url}]
        ELSE [t EXCEPT !.q = Tail(t.q) \o data.child,
                       !.seen = @ \cup {url},
                       !.loaded = Append(@, url),
                       !.inserted = IF data.code # "" THEN Append(@, url) ELSE @]

\* One iteration of `while q`: pop, skip a visited URL, mark it, load its file, insert
\* the concept when the document has a code, enqueue the children.
insert_icd11_tree_iteration(t) ==
    LET url  == Head(t.q)
        data == t.docs[_file_from_url(url)]
    IN  IF url \in t.seen THEN [t EXCEPT !.q = Tail(t.q)]
        ELSE IF data.kind # "document" THEN [t EXCEPT !.q = Tail(t.q), !.seen = @ \cup {url}]
        ELSE [t EXCEPT !.q = Tail(t.q) \o data.child,
                       !.seen = @ \cup {url},
                       !.loaded = Append(@, url),
                       !.inserted = IF data.code # "" THEN Append(@, url) ELSE @]

InitTree ==
    /\ pc = "library"
    /\ cfg = DefaultGlobals
    /\ Concept = Corpus
    /\ TranslationCache = {}
    /\ ConceptMap = <<>>
    /\ synonyms = <<>>
    /\ fzSeed = 0
    /\ trSeed = 0
    /\ argv = NoArgs
    /\ runs = 0
    /\ prev = [argv |-> NoArgs, rows |-> 0, run |-> EmptyRun]
    /\ pending = <<>>
    /\ run = EmptyRun
    /\ classify = NoClassification
    /\ icd_cache = NoIcdCache
    /\ out_files = {}
    /\ tree \in {[NoTree EXCEPT !.docs = d, !.q = <<root_url>>] :
                    d \in [1..MaxIcdNodes -> TreeDocs]}
    /\ sem = NoSemantic

insert_icd11_tree_step ==
    /\ ~tree.done
    /\ tree.q # <<>>
    /\ tree' = insert_icd11_tree_iteration(tree)
    /\ UNCHANGED <<pc, cfg, Concept, TranslationCache, ConceptMap, synonyms, fzSeed, trSeed,
                   argv, runs, prev, pending, run, classify, icd_cache, out_files, sem>>

\* The queue is empty: the loop ends, the final commit, the function returns.
insert_icd11_tree_return ==
    /\ ~tree.done
    /\ tree.q = <<>>
    /\ tree' = [tree EXCEPT !.done = TRUE]
    /\ UNCHANGED <<pc, cfg, Concept, TranslationCache, ConceptMap, synonyms, fzSeed, trSeed,
                   argv, runs, prev, pending, run, classify, icd_cache, out_files, sem>>

NextTree == insert_icd11_tree_step \/ insert_icd11_tree_return

SpecTree == InitTree /\ [][NextTree]_vars

\* The loop is not suspended for ever: a step that can be taken is taken.
SpecTreeLive == SpecTree /\ WF_vars(NextTree)

\* ---- C26 ----------------------------------------------------------------------
Occurrences(seq, x) == Cardinality({i \in 1..Len(seq) : seq[i] = x})

\* Every node (child reference URL, the key of the visited set) was loaded and
\* inserted at most once.
EachNodeAtMostOnce ==
    \A u \in TreeUrls : Occurrences(tree.loaded, u) <= 1 /\ Occurrences(tree.inserted, u) <= 1

NumCallers == 2
MaxCalls == 4

Callers == 1..NumCallers

\* A thread outside both loaders; codes, vectors, model are its locals.
NoCaller ==
    [pc |-> "idle", codes |-> NoObject, vectors |-> NoObject, model |-> NoObject,
     path |-> ""]

\* threading.RLock: free, or already held by the asking thread.
lock_ignored(s, t) == TRUE

lock_free(s, t) == s.lock = 0 \/ s.lock = t

\* Leaving the with block (by return or by exception) releases the lock.
lock_release(s, t) == [s EXCEPT !.lock = IF @ = t THEN 0 ELSE @]

\* The call ends: what it returned (or that it raised), and by which path it got there.
caller_returns(s, t, fn, c, v, m) == [s EXCEPT !.th[t] = NoCaller, !.returned = @ \cup {[by |-> t, fn |-> fn, codes |-> c, vectors |-> v, model |-> m, path |-> s.th[t].path]}]

caller_raises(s, t) == [s EXCEPT !.th[t] = NoCaller, !.returned = @ \cup {[by |-> t, fn |-> "raise", codes |-> NoObject, vectors |-> NoObject, model |-> NoObject, path |-> s.th[t].path]}]

\* One step of thread t inside _load_embeddings_if_needed.
load_embeddings_if_needed_next(s, t) ==
    CASE s.th[t].pc = "e_fast_codes" ->
            [s EXCEPT !.th[t].pc = IF s.codes # NoObject THEN "e_fast_vectors" ELSE "e_numpy"]
      [] s.th[t].pc = "e_fast_vectors" ->
            [s EXCEPT !.th[t].pc = IF s.vectors # NoObject THEN "e_fast_ret_codes" ELSE "e_numpy"]
      [] s.th[t].pc = "e_fast_ret_codes" ->
            [s EXCEPT !.th[t].pc = "e_fast_ret_vectors", !.th[t].codes = s.codes,
                      !.th[t].path = "fast"]
      [] s.th[t].pc = "e_fast_ret_vectors" ->
            caller_returns(s, t, "embeddings", s.th[t].codes, s.vectors, NoObject)
      [] s.th[t].pc = "e_numpy" ->
            IF s.artifact THEN [s EXCEPT !.th[t].pc = "e_lock"] ELSE caller_raises(s, t)
      [] s.th[t].pc = "e_lock" ->
            [s EXCEPT !.lock = t, !.th[t].pc = "e_in_codes"]
      [] s.th[t].pc = "e_in_codes" ->
            [s EXCEPT !.th[t].pc = IF s.codes # NoObject THEN "e_in_vectors" ELSE "e_load"]
      [] s.th[t].pc = "e_in_vectors" ->
            [s EXCEPT !.th[t].pc = IF s.vectors # NoObject THEN "e_ret_codes" ELSE "e_load",
                      !.th[t].path = IF s.vectors # NoObject THEN "rechecked" ELSE ""]
      [] s.th[t].pc = "e_load" ->
            [s EXCEPT !.loads = @ + 1,
                      !.th[t].codes = [id |-> s.loads + 1, complete |-> TRUE],
                      !.th[t].vectors = [id |-> s.loads + 1, complete |-> FALSE],
                      !.th[t].path = "loaded",
                      !.th[t].pc = "e_normalize"]
      [] s.th[t].pc = "e_normalize" ->
            [s EXCEPT !.th[t].vectors.complete = TRUE, !.th[t].pc = "e_store_codes"]
      [] s.th[t].pc = "e_store_codes" ->
            [s EXCEPT !.codes = s.th[t].codes, !.th[t].pc = "e_store_vectors"]
      [] s.th[t].pc = "e_store_vectors" ->
            [s EXCEPT !.vectors = s.th[t].vectors, !.th[t].pc = "e_ret_codes"]
      [] s.th[t].pc = "e_ret_codes" ->
            [s EXCEPT !.th[t].pc = "e_ret_vectors", !.th[t].codes = s.codes]
      [] s.th[t].pc = "e_ret_vectors" ->
            lock_release(caller_returns(s, t, "embeddings", s.th[t].codes, s.vectors, NoObject), t)
      [] OTHER -> s

\* One step of thread t inside _load_model_if_needed.
load_model_if_needed_next(s, t) ==
    CASE s.th[t].pc = "m_fast" ->
            [s EXCEPT !.th[t].pc = IF s.model # NoObject THEN "m_fast_ret" ELSE "m_lock",
                      !.th[t].path = IF s.model # NoObject THEN "fast" ELSE ""]
      [] s.th[t].pc = "m_fast_ret" ->
            caller_returns(s, t, "model", NoObject, NoObject, s.model)
      [] s.th[t].pc = "m_lock" ->
            [s EXCEPT !.lock = t, !.th[t].pc = "m_in"]
      [] s.th[t].pc = "m_in" ->
            [s EXCEPT !.th[t].pc = IF s.model # NoObject THEN "m_ret" ELSE "m_import",
                      !.th[t].path = IF s.model # NoObject THEN "rechecked" ELSE ""]
      [] s.th[t].pc = "m_import" ->
            IF s.library THEN [s EXCEPT !.th[t].pc = "m_construct"]
            ELSE lock_release(caller_raises(s, t), t)
      [] s.th[t].pc = "m_construct" ->
            [s EXCEPT !.constructs = @ + 1,
                      !.th[t].model = [id |-> s.constructs + 1, complete |-> TRUE],
                      !.th[t].path = "loaded",
                      !.th[t].pc = "m_store"]
      [] s.th[t].pc = "m_store" ->
            [s EXCEPT !.model = s.th[t].model, !.th[t].pc = "m_ret"]
      [] s.th[t].pc = "m_ret" ->
            lock_release(caller_returns(s, t, "model", NoObject, NoObject, s.model), t)
      [] OTHER -> s

EmbeddingsPcs ==
    {"e_fast_codes", "e_fast_vectors", "e_fast_ret_codes", "e_fast_ret_vectors", "e_numpy",
     "e_lock", "e_in_codes", "e_in_vectors", "e_load", "e_normalize", "e_store_codes",
     "e_store_vectors", "e_ret_codes", "e_ret_vectors"}

ModelPcs ==
    {"m_fast", "m_fast_ret", "m_lock", "m_in", "m_import", "m_construct", "m_store", "m_ret"}

\* A freshly imported module; the artifact file and the sentence-transformers library
\* are there or not.
InitSemantic ==
    /\ pc = "library"
    /\ cfg = DefaultGlobals
    /\ Concept = Corpus
    /\ TranslationCache = {}
    /\ ConceptMap = <<>>
    /\ synonyms = <<>>
    /\ fzSeed = 0
    /\ trSeed = 0
    /\ argv = NoArgs
    /\ runs = 0
    /\ prev = [argv |-> NoArgs, rows |-> 0, run |-> EmptyRun]
    /\ pending = <<>>
    /\ run = EmptyRun
    /\ classify = NoClassification
    /\ icd_cache = NoIcdCache
    /\ out_files = {}
    /\ tree = NoTree
    /\ \E a \in BOOLEAN, l \in BOOLEAN :
          sem = [NoSemantic EXCEPT !.artifact = a, !.library = l,
                                   !.th = [t \in Callers |-> NoCaller]]

\* A thread calls _load_embeddings_if_needed.
load_embeddings_if_needed_call(t) ==
    /\ sem.th[t].pc = "idle"
    /\ sem.calls < MaxCalls
    /\ sem' = [sem EXCEPT !.th[t].pc = "e_fast_codes", !.calls = @ + 1]
    /\ UNCHANGED <<pc, cfg, Concept, TranslationCache, ConceptMap, synonyms, fzSeed, trSeed,
                   argv, runs, prev, pending, run, classify, icd_cache, out_files, tree>>

\* A thread calls _load_model_if_needed.
load_model_if_needed_call(t) ==
    /\ sem.th[t].pc = "idle"
    /\ sem.calls < MaxCalls
    /\ sem' = [sem EXCEPT !.th[t].pc = "m_fast", !.calls = @ + 1]
    /\ UNCHANGED <<pc, cfg, Concept, TranslationCache, ConceptMap, synonyms, fzSeed, trSeed,
                   argv, runs, prev, pending, run, classify, icd_cache, out_files, tree>>

\* A thread inside _load_embeddings_if_needed runs its next step; at the with
\* statement it waits until the lock can be taken.
load_embeddings_if_needed_step(t) ==
    /\ sem.th[t].pc \in EmbeddingsPcs
    /\ sem.th[t].pc = "e_lock" => lock_free(sem, t)
    /\ sem' = load_embeddings_if_needed_next(sem, t)
    /\ UNCHANGED <<pc, cfg, Concept, TranslationCache, ConceptMap, synonyms, fzSeed, trSeed,
                   argv, runs, prev, pending, run, classify, icd_cache, out_files, tree>>

\* The same for a thread inside _load_model_if_needed.
load_model_if_needed_step(t) ==
    /\ sem.th[t].pc \in ModelPcs
    /\ sem.th[t].pc = "m_lock" => lock_free(sem, t)
    /\ sem' = load_model_if_needed_next(sem, t)
    /\ UNCHANGED <<pc, cfg, Concept, TranslationCache, ConceptMap, synonyms, fzSeed, trSeed,
                   argv, runs, prev, pending, run, classify, icd_cache, out_files, tree>>

NextSemantic ==
    \E t \in Callers :
        \/ load_embeddings_if_needed_call(t)
        \/ load_model_if_needed_call(t)
        \/ load_embeddings_if_needed_step(t)
        \/ load_model_if_needed_step(t)

SpecSemantic == InitSemantic /\ [][NextSemantic]_vars

\* ---- C27 ----------------------------------------------------------------------
\* C27: under any interleaving of concurrent callers of _load_model_if_needed and
\* _load_embeddings_if_needed, the model is constructed at most once and the
\* embedding artifact is loaded at most once, and every caller that is handed a
\* value is handed the same fully initialised objects (the vectors normalised),
\* never a partly initialised one and never None.
C27_LoadedOnceSameObject ==
    /\ sem.loads <= 1
    /\ sem.constructs <= 1
    /\ \A r \in sem.returned :
          /\ r.fn = "embeddings" => r.codes.complete /\ r.vectors.complete
          /\ r.fn = "model" => r.model.complete
    /\ \A r1, r2 \in sem.returned :
          r1.fn = r2.fn =>
              r1.codes = r2.codes /\ r1.vectors = r2.vectors /\ r1.model = r2.model

\* Two threads raced for both singletons: one loaded or constructed it, the other
\* waited at the lock and found it set on the second check, and both were handed it.
C27_Witness_RacedCallersShare ==
    /\ \E r1, r2 \in sem.returned :
          /\ r1.by # r2.by
          /\ r1.fn = "embeddings" /\ r1.path = "loaded"
          /\ r2.fn = "embeddings" /\ r2.path = "rechecked"
    /\ \E r1, r2 \in sem.returned :
          /\ r1.by # r2.by
          /\ r1.fn = "model" /\ r1.path = "loaded"
          /\ r2.fn = "model" /\ r2.path = "rechecked"

(***************************************************************************)
(* map_system over a large ICD release: the biomedicine code system holds  *)
(* about as many codes as find_best_matches returns candidates, TM2 holds  *)
(* one.  db/icd11 holds one document per code of the two target systems    *)
(* (step3 fills the Concept table from the same documents).                *)
(***************************************************************************)
MaxCrowd == 101

\* The labels the biomedicine codes carry, all the same one.
CrowdLabels == {<<"vata", "dosha">>, <<"vata", "pitta", "kapha", "jvara">>}

\* The Concept table: one Ayurveda concept, one TM2 code, n biomedicine codes.
CrowdedCorpus(n, label) ==
    [u \in CodeSystem |->
        CASE u = NAMASTE_CS["NAMASTE-Ayurveda"] ->
                << [code |-> "A1", display |-> <<"vata", "dosha">>, definition |-> <<>>] >>
          [] u = TM2_URL ->
                << [code |-> "TM1", display |-> <<"Vata", "dosha", "disorder">>, definition |-> <<>>] >>
          [] u = ICD_BIOMED_URL ->
                [i \in 1..n |-> [code |-> "B" \o ToString(i), display |-> label, definition |-> <<>>]]
          [] OTHER -> <<>>]

\* The documents under db/icd11 for the codes of the Concept table's target systems.
StoreDocs ==
    [i \in 1..Len(load_concepts(TM2_URL) \o load_concepts(ICD_BIOMED_URL)) |->
        [code |-> (load_concepts(TM2_URL) \o load_concepts(ICD_BIOMED_URL))[i].code,
         labels |-> <<(load_concepts(TM2_URL) \o load_concepts(ICD_BIOMED_URL))[i].display>>]]

InitCrowded ==
    /\ pc = "library"
    /\ cfg \in {[DefaultGlobals EXCEPT !.TRANSLATE_TO_EN = tr, !.ACCEPT_SCORE_THRESHOLD = ac] :
                    tr \in BOOLEAN, ac \in AcceptChoices}
    /\ Concept \in {CrowdedCorpus(n, l) : n \in (MaxCrowd - 2)..MaxCrowd, l \in CrowdLabels}
    /\ TranslationCache = {}
    /\ ConceptMap = <<>>
    /\ synonyms = <<>>
    /\ fzSeed \in 0..(NumFuzzSeeds - 1)
    /\ trSeed \in 0..(NumTranslatorSeeds - 1)
    /\ cfg.TRANSLATE_TO_EN \/ trSeed = 0
    /\ argv = NoArgs
    /\ runs = 0
    /\ prev = [argv |-> NoArgs, rows |-> 0, run |-> EmptyRun]
    /\ pending = <<"NAMASTE-Ayurveda">>
    /\ run = EmptyRun
    /\ classify = NoClassification
    /\ icd_cache = NoIcdCache
    /\ out_files = {}
    /\ tree = NoTree
    /\ sem = NoSemantic

\* map_system(conn, source_name, source_url, icd_targets) in the mapping mode, the
\* alias index built from the documents of this release.
map_system_crowded ==
    /\ pc = "library"
    /\ run.source = ""
    /\ run' = MappingWith(Head(pending), load_concepts(NAMASTE_CS[Head(pending)]), FALSE,
                          Pretranslate(Head(pending), NAMASTE_CS[Head(pending)],
                                       load_concepts(NAMASTE_CS[Head(pending)]), FALSE, <<>>),
                          _load_system_synonyms(Head(pending)),
                          _get_system_thresholds(Head(pending)), FreshIndex(StoreDocs))
    /\ TranslationCache' = run'.cache
    /\ UNCHANGED <<pc, cfg, Concept, ConceptMap, synonyms, fzSeed, trSeed, argv, runs,
                   prev, pending, classify, icd_cache, out_files, tree, sem>>

NextCrowded == map_system_crowded

SpecCrowded == InitCrowded /\ [][NextCrowded]_vars

\* ---- C28 ----------------------------------------------------------------------
\* The codes of target t_url's concept store that find_best_matches scored for the
\* source concept nam, with their scores, best first.
ScoredInTarget(nam, t_url) ==
    best_here_of(find_best_matches_results(nam, FreshIndex(StoreDocs), cfg.TRANSLATE_TO_EN,
                                           NAMASTE_LANG_TAG_get(run.source)),
                 target_codes(t_url))

\* The concept of the source system with this code.
SourceConcept(code) ==
    CHOOSE nam \in Range(load_concepts(NAMASTE_CS[run.source])) : nam.code = code

\* C28: for each target system, the top candidate that map_system uses has the
\* maximum finalScore among all codes of that target's concept store that were
\* scored for the source concept, also when more than 100 candidates belonging to
\* other target systems score higher: a target with a scored code has a top
\* candidate, and no scored code of the target scores higher than it.
C28_TopIsTargetMaximum ==
    (run.source # "" /\ ~run.aborted) =>
        \A i \in 1..Len(run.decisions) :
            ScoredInTarget(SourceConcept(run.decisions[i].source_code),
                           run.decisions[i].target) # <<>>
            => /\ run.decisions[i].outcome # "no-candidate"
               /\ run.decisions[i].top.score
                    = ScoredInTarget(SourceConcept(run.decisions[i].source_code),
                                     run.decisions[i].target)[1].score

\* ---- C29 ----------------------------------------------------------------------
\* C29: every candidate code carried by a ReviewItem exists in the concept store of
\* the target system whose rejection produced that item, and a source concept gets
\* at most one ReviewItem per target system.
C29_ReviewCandidatesOfTarget ==
    /\ \A i \in 1..Len(run.decisions) :
          run.decisions[i].outcome = "review" =>
              \A k \in 1..Len(run.decisions[i].review.candidates) :
                  run.decisions[i].review.candidates[k].code
                      \in target_codes(run.decisions[i].target)
    /\ \A i, j \in 1..Len(run.decisions) :
          /\ run.decisions[i].outcome = "review" /\ run.decisions[j].outcome = "review"
          /\ run.decisions[i].source_code = run.decisions[j].source_code
          /\ run.decisions[i].target = run.decisions[j].target
          => i = j

(***************************************************************************)
(* Runs of map_system in batch translation with the NAMASTE concepts       *)
(* re-imported in between: step3_store_db.insert_concept refreshes the     *)
(* display and definition of an existing concept.                          *)
(***************************************************************************)
\* insert_concept(codesystem_id, code, display, definition) on one code system's rows:
\* INSERT OR IGNORE, then the UPDATE that keeps a column where the new value is ''.
insert_concept(rows, code, display, definition) ==
    IF code = "" THEN rows
    ELSE LET inserted == IF \E i \in 1..Len(rows) : rows[i].code = code THEN rows
                         ELSE Append(rows, [code |-> code, display |-> display,
                                            definition |-> definition])
         IN  [i \in 1..Len(inserted) |->
                IF inserted[i].code = code
                THEN [code |-> code,
                      display |-> IF display # <<>> THEN display ELSE inserted[i].display,
                      definition |-> IF definition # <<>> THEN definition
                                     ELSE inserted[i].definition]
                ELSE inserted[i]]

\* The display and definition a re-imported CodeSystem JSON may carry for a concept.
ImportedDisplays == {<<>>, <<"pitta", "kapha", "jvara">>}

ImportedDefinitions == {<<>>, <<"vikara">>}

InitRerun ==
    /\ pc = "library"
    /\ cfg = [DefaultGlobals EXCEPT !.ACCEPT_SCORE_THRESHOLD = 65000, !.BATCH_TRANSLATE = TRUE]
    /\ Concept = Corpus
    /\ TranslationCache = {}
    /\ ConceptMap = <<>>
    /\ synonyms = <<>>
    /\ fzSeed \in 0..(NumFuzzSeeds - 1)
    /\ trSeed \in 0..(NumTranslatorSeeds - 1)
    /\ argv = NoArgs
    /\ runs = 0
    /\ prev = [argv |-> NoArgs, rows |-> 0, run |-> EmptyRun]
    /\ pending = <<"NAMASTE-Ayurveda">>
    /\ run = EmptyRun
    /\ classify = NoClassification
    /\ icd_cache = NoIcdCache
    /\ out_files = {}
    /\ tree = NoTree
    /\ sem = NoSemantic

\* map_system(conn, source_name, source_url, icd_targets), once more.
map_system_rerun ==
    /\ pc \in {"library", "imported"}
    /\ runs < MaxRuns
    /\ run' = map_system(Head(pending), NAMASTE_CS[Head(pending)])
    /\ TranslationCache' = run'.cache
    /\ prev' = [prev EXCEPT !.run = run]
    /\ runs' = runs + 1
    /\ pc' = "library"
    /\ UNCHANGED <<cfg, Concept, ConceptMap, synonyms, fzSeed, trSeed, argv,
                   pending, classify, icd_cache, out_files, tree, sem>>

\* Between two runs step3 is run again over a CodeSystem JSON in which one concept
\* of the source system has a new display, a new definition, or both.
insert_concept_call ==
    /\ pc = "library"
    /\ runs >= 1 /\ runs < MaxRuns
    /\ \E i \in 1..Len(load_concepts(NAMASTE_CS[Head(pending)])),
          display \in ImportedDisplays, definition \in ImportedDefinitions :
          Concept' = [Concept EXCEPT ![NAMASTE_CS[Head(pending)]] =
                        insert_concept(@, @[i].code, display, definition)]
    /\ pc' = "imported"
    /\ UNCHANGED <<cfg, TranslationCache, ConceptMap, synonyms, fzSeed, trSeed, argv, runs,
                   prev, pending, run, classify, icd_cache, out_files, tree, sem>>

NextRerun == map_system_rerun \/ insert_concept_call

SpecRerun == InitRerun /\ [][NextRerun]_vars

\* ---- C30 ----------------------------------------------------------------------
\* map_system has returned from a batch-translation mapping run over the Concept
\* table as it is now.
BatchRunOverCurrentTexts ==
    pc = "library" /\ run.source # "" /\ run.use_batch /\ ~run.dry_run /\ ~run.aborted

\* C30: across any sequence of runs, the translation that map_system uses for a
\* source concept is the translation of that concept's current source text (if a
\* concept's display or definition changed between runs, the cached record for its
\* (system, code) is not used for the changed text); and after any sequence of
\* cache writes there is exactly one record per (system, code), holding the last
\* value written.
C30_TranslationOfCurrentText ==
    BatchRunOverCurrentTexts =>
        /\ \A nam \in Range(load_concepts(NAMASTE_CS[run.source])) :
              \A d \in DecisionsOf(nam.code) :
                  "top" \in DOMAIN d =>
                      d.rel_text = IF OwnTranslation(nam, run.source).en # <<>>
                                   THEN OwnTranslation(nam, run.source).en
                                   ELSE DisplayDefinition(nam)
        /\ \A r1, r2 \in TranslationCache :
              r1.codesystem = r2.codesystem /\ r1.code = r2.code => r1 = r2
        /\ \A nam \in Queued :
              \E r \in TranslationCache :
                  /\ r.codesystem = NAMASTE_CS[run.source] /\ r.code = nam.code
                  /\ r.en_joined = OwnTranslation(nam, run.source).en
                  /\ r.back_sim = OwnTranslation(nam, run.source).sim

=============================================================================
